---------------------------- MODULE Spec2Model ----------------------------
(***************************************************************************)
(* provider-pocket-id: the managed-resource controllers (Group, OIDCClient, *)
(* AdminUser, OIDCClientGroupBinding), the Pocket ID REST client they call, *)
(* and the remote Pocket ID instance they converge.                         *)
(*                                                                         *)
(* A declared resource (cr[r]) has Spec, Status.AtProvider, the             *)
(* external-name annotation (the stable name), a Ready condition and a      *)
(* deletion marker.  One reconciliation cycle of a resource is an Observe   *)
(* step followed by at most one Create, Update or Delete step; cycles of    *)
(* different resources interleave at the granularity of these steps.        *)
(***************************************************************************)
EXTENDS Integers, Sequences, FiniteSets, TLC

VARIABLES
    cr,       \* declared resources: resource name -> record
    groups,   \* remote groups (set of pocketid.Group records)
    clients,  \* remote OIDC clients (set of records, without GroupNames)
    users,    \* remote users (set of pocketid.User records)
    member,   \* remote client-group associations: set of <<clientID, groupID>>
    nextId,   \* number of remote objects created so far
    cyc,      \* per resource: the current (or last) reconciliation cycle
    env       \* environment: scenario, fault switch and input budgets

vars == <<cr, groups, clients, users, member, nextId, cyc, env>>

----------------------------------------------------------------------------
(* Bounds of the model *)

\* Remote objects the controllers may create in one run.
MaxCreates == 2
\* Spec edits the user may make in one run.
MaxEdits == 1
\* Out-of-band removals of remote objects by another actor in one run.
MaxExternal == 1
\* Longest string list given to a drift detector.
MaxLen == 3

----------------------------------------------------------------------------
(* Values *)

Resources == {"G", "H", "C", "A", "B"}

KindOf(r) ==
    CASE r = "G" -> "group"
      [] r = "H" -> "group"
      [] r = "C" -> "client"
      [] r = "A" -> "admin"
      [] r = "B" -> "binding"

\* Declared names (group name, client name, username).
Names == {"eng", "ops"}

EmptyMap == <<>>

\* HTTP status codes the client distinguishes.
StatusOK == 200
StatusBadRequest == 400
StatusNotFound == 404

\* A remote identifier: a kind prefix and the creation count.
NewID(prefix, n) == prefix \o ToString(n)

----------------------------------------------------------------------------
(* Zero values of the Go structs *)

NoGroup == [ID |-> "", GroupName |-> "", FriendlyName |-> "", CustomClaims |-> EmptyMap]

GroupObservationZero == [ID |-> "", Name |-> "", FriendlyName |-> "", CustomClaims |-> EmptyMap]

NoClient ==
    [ID |-> "", ClientName |-> "", ClientSecret |-> "", RedirectURIs |-> <<>>,
     PostLogoutURIs |-> <<>>, LaunchURL |-> "", IsPublic |-> FALSE,
     RequirePKCE |-> FALSE, HasLogo |-> FALSE, GroupNames |-> {}]

OIDCClientObservationZero ==
    [ID |-> "", Name |-> "", CallbackURLs |-> <<>>, LogoutCallbackURLs |-> <<>>,
     LaunchURL |-> "", IsPublic |-> FALSE, PkceEnabled |-> FALSE, HasLogo |-> FALSE]

NoUser ==
    [ID |-> "", Username |-> "", Email |-> "", FirstName |-> "", LastName |-> "",
     Locale |-> "", Disabled |-> FALSE, IsAdmin |-> FALSE, UserGroups |-> {},
     CustomClaims |-> EmptyMap]

AdminUserObservationZero ==
    [ID |-> "", Username |-> "", Email |-> "", FirstName |-> "", LastName |-> "",
     Locale |-> "", Disabled |-> FALSE, IsAdmin |-> FALSE, UserGroups |-> {},
     CustomClaims |-> EmptyMap]

----------------------------------------------------------------------------
(* crossplane-runtime meta helpers used by the controllers *)

GetExternalName(c) == c.ext

SetExternalName(c, name) == [c EXCEPT !.ext = name]

\* xpv1.Available(): the Ready condition the handlers set.
Available == "Available"

SetConditions(c, cond) == [c EXCEPT !.cond = cond]

----------------------------------------------------------------------------
(* The REST client: interpretation of HTTP responses *)

\* checkResponse: a status >= 400 is an error.
checkResponse(resp) == resp.status >= StatusBadRequest

\* GetGroup: 404 is "absent" (nil, nil); other errors are returned.
GetGroup(resp) ==
    IF resp.status = StatusNotFound THEN [err |-> FALSE, found |-> FALSE, obj |-> NoGroup]
    ELSE IF checkResponse(resp) THEN [err |-> TRUE, found |-> FALSE, obj |-> NoGroup]
    ELSE [err |-> FALSE, found |-> TRUE, obj |-> resp.body]

\* ListGroups: any error status is an error.
ListGroups(resp) ==
    IF checkResponse(resp) THEN [err |-> TRUE, list |-> {}]
    ELSE [err |-> FALSE, list |-> resp.body]

\* GetGroupByExternalName: scan of the list for the group name.
GetGroupByExternalName(resp, groupName) ==
    LET l == ListGroups(resp)
        hits == {g \in l.list : g.GroupName = groupName}
    IN  IF l.err THEN [err |-> TRUE, found |-> FALSE, obj |-> NoGroup]
        ELSE IF hits = {} THEN [err |-> FALSE, found |-> FALSE, obj |-> NoGroup]
        ELSE [err |-> FALSE, found |-> TRUE, obj |-> CHOOSE g \in hits : TRUE]

\* CreateGroup / UpdateGroup: the decoded group, or an error.
CreateGroup(resp) ==
    IF checkResponse(resp) THEN [err |-> TRUE, obj |-> NoGroup]
    ELSE [err |-> FALSE, obj |-> resp.body]

UpdateGroup(resp) ==
    IF checkResponse(resp) THEN [err |-> TRUE, obj |-> NoGroup]
    ELSE [err |-> FALSE, obj |-> resp.body]

\* DeleteGroup without its not-found case: every error status is an error.
DeleteGroupStrict(resp) == checkResponse(resp)

\* DeleteGroup: 404 means already deleted and is success.
DeleteGroup(resp) ==
    IF resp.status = StatusNotFound THEN FALSE
    ELSE checkResponse(resp)

\* The same functions for OIDC clients.
GetOIDCClient(resp) ==
    IF resp.status = StatusNotFound THEN [err |-> FALSE, found |-> FALSE, obj |-> NoClient]
    ELSE IF checkResponse(resp) THEN [err |-> TRUE, found |-> FALSE, obj |-> NoClient]
    ELSE [err |-> FALSE, found |-> TRUE, obj |-> resp.body]

ListOIDCClients(resp) ==
    IF checkResponse(resp) THEN [err |-> TRUE, list |-> {}]
    ELSE [err |-> FALSE, list |-> resp.body]

\* A lookup that returns some listed client, whatever its name.
GetOIDCClientByExternalNameAny(resp, clientName) ==
    LET l == ListOIDCClients(resp)
        hits == l.list
    IN  IF l.err THEN [err |-> TRUE, found |-> FALSE, obj |-> NoClient]
        ELSE IF hits = {} THEN [err |-> FALSE, found |-> FALSE, obj |-> NoClient]
        ELSE [err |-> FALSE, found |-> TRUE, obj |-> CHOOSE c \in hits : TRUE]

GetOIDCClientByExternalName(resp, clientName) ==
    LET l == ListOIDCClients(resp)
        hits == {c \in l.list : c.ClientName = clientName}
    IN  IF l.err THEN [err |-> TRUE, found |-> FALSE, obj |-> NoClient]
        ELSE IF hits = {} THEN [err |-> FALSE, found |-> FALSE, obj |-> NoClient]
        ELSE [err |-> FALSE, found |-> TRUE, obj |-> CHOOSE c \in hits : TRUE]

CreateOIDCClient(resp) ==
    IF checkResponse(resp) THEN [err |-> TRUE, obj |-> NoClient]
    ELSE [err |-> FALSE, obj |-> resp.body]

UpdateOIDCClient(resp) ==
    IF checkResponse(resp) THEN [err |-> TRUE, obj |-> NoClient]
    ELSE [err |-> FALSE, obj |-> resp.body]

DeleteOIDCClient(resp) ==
    IF resp.status = StatusNotFound THEN FALSE
    ELSE checkResponse(resp)

\* The same functions for users.
ListUsers(resp) ==
    IF checkResponse(resp) THEN [err |-> TRUE, list |-> {}]
    ELSE [err |-> FALSE, list |-> resp.body]

GetUserByExternalName(resp, username) ==
    LET l == ListUsers(resp)
        hits == {u \in l.list : u.Username = username}
    IN  IF l.err THEN [err |-> TRUE, found |-> FALSE, obj |-> NoUser]
        ELSE IF hits = {} THEN [err |-> FALSE, found |-> FALSE, obj |-> NoUser]
        ELSE [err |-> FALSE, found |-> TRUE, obj |-> CHOOSE u \in hits : TRUE]

CreateUser(resp) ==
    IF checkResponse(resp) THEN [err |-> TRUE, obj |-> NoUser]
    ELSE [err |-> FALSE, obj |-> resp.body]

UpdateUser(resp) ==
    IF checkResponse(resp) THEN [err |-> TRUE, obj |-> NoUser]
    ELSE [err |-> FALSE, obj |-> resp.body]

DeleteUser(resp) ==
    IF resp.status = StatusNotFound THEN FALSE
    ELSE checkResponse(resp)

\* The size limit of a logo, in bytes.
MaxLogoBytes == 2097152

\* strings.ToLower on one character.
ToLowerChar(ch) ==
    CASE ch = "P" -> "p" [] ch = "N" -> "n" [] ch = "G" -> "g" [] ch = "J" -> "j"
      [] ch = "E" -> "e" [] ch = "I" -> "i" [] ch = "F" -> "f" [] ch = "S" -> "s"
      [] ch = "V" -> "v" [] ch = "X" -> "x" [] OTHER -> ch

\* A check that accepts an extension anywhere in the URL.
isValidImageExtensionAnywhere(url) ==
    LET lower == [i \in 1..Len(url) |-> ToLowerChar(url[i])]
        validExtensions ==
          << <<".", "p", "n", "g">>, <<".", "j", "p", "e", "g">>, <<".", "j", "p", "g">>,
             <<".", "g", "i", "f">>, <<".", "s", "v", "g">> >>
    IN  \E i \in 1..Len(validExtensions), k \in 1..Len(lower) :
            /\ k + Len(validExtensions[i]) - 1 <= Len(lower)
            /\ SubSeq(lower, k, k + Len(validExtensions[i]) - 1) = validExtensions[i]

\* isValidImageExtension: the URL, a string being the sequence of its
\* characters, is lower-cased and tested for each suffix.
isValidImageExtension(url) ==
    LET lower == [i \in 1..Len(url) |-> ToLowerChar(url[i])]
        validExtensions ==
          << <<".", "p", "n", "g">>, <<".", "j", "p", "e", "g">>, <<".", "j", "p", "g">>,
             <<".", "g", "i", "f">>, <<".", "s", "v", "g">> >>
        HasSuffix(str, suffix) ==
          /\ Len(str) >= Len(suffix)
          /\ SubSeq(str, Len(str) - Len(suffix) + 1, Len(str)) = suffix
    IN  \E i \in 1..Len(validExtensions) : HasSuffix(lower, validExtensions[i])

\* Client.UploadOIDCClientLogo: the error it returns ("" for none) and the
\* requests it makes, when the GET of the URL is answered `answer` and the
\* PUT of the logo `resp`. downloadFile gives the bytes of the answer, or an
\* error when the GET fails or is not answered 200; status 0 is a request
\* that got no answer.
UploadOIDCClientLogo(clientID, logoURL, answer, resp) ==
    LET got == IF answer.status # StatusOK THEN [err |-> TRUE, size |-> 0]
               ELSE [err |-> FALSE, size |-> answer.size]
        get == [op |-> "GET", target |-> "logoURL", status |-> answer.status]
        put == [op |-> "UploadOIDCClientLogo", target |-> clientID, status |-> resp.status]
    IN  IF logoURL = <<>> THEN [err |-> "", calls |-> {}]
        ELSE IF got.err THEN [err |-> "failed to download logo", calls |-> {get}]
        ELSE IF got.size > MaxLogoBytes
             THEN [err |-> "logo file size exceeds 2MB limit", calls |-> {get}]
        ELSE IF ~isValidImageExtension(logoURL)
             THEN [err |-> "invalid image format", calls |-> {get}]
        ELSE [err |-> IF checkResponse(resp) THEN "failed to upload logo" ELSE "",
              calls |-> {get, put}]

\* AddClientToGroup: any error status is an error.
AddClientToGroup(resp) == checkResponse(resp)

\* RemoveClientFromGroup: 404 means the binding does not exist and is success.
RemoveClientFromGroup(resp) ==
    IF resp.status = StatusNotFound THEN FALSE
    ELSE checkResponse(resp)

----------------------------------------------------------------------------
(* The remote Pocket ID instance: what each REST endpoint answers and how   *)
(* it changes the remote state.  A call may also fail (any error status)    *)
(* when the environment is faulty.                                          *)

Failures == IF env.faulty THEN {[status |-> StatusBadRequest + 100]} ELSE {}

Resp(status, body) == [status |-> status, body |-> body]

\* GET /api/groups
HttpListGroups ==
    {Resp(StatusOK, groups)} \cup {Resp(f.status, {}) : f \in Failures}

\* GET /api/groups/{id}
HttpGetGroup(id) ==
    (IF \E g \in groups : g.ID = id
     THEN {Resp(StatusOK, CHOOSE g \in groups : g.ID = id)}
     ELSE {Resp(StatusNotFound, NoGroup)})
    \cup {Resp(f.status, NoGroup) : f \in Failures}

\* POST /api/groups: group names are unique within Pocket ID.
HttpCreateGroup(req) ==
    LET new == [ID |-> NewID("g", nextId + 1), GroupName |-> req.GroupName,
                FriendlyName |-> req.FriendlyName, CustomClaims |-> req.CustomClaims]
    IN  (IF \E g \in groups : g.GroupName = req.GroupName
         THEN {[resp |-> Resp(StatusBadRequest, NoGroup), groups |-> groups, made |-> 0]}
         ELSE IF nextId < MaxCreates
         THEN {[resp |-> Resp(StatusOK, new), groups |-> groups \cup {new}, made |-> 1]}
         ELSE {})
        \cup {[resp |-> Resp(f.status, NoGroup), groups |-> groups, made |-> 0] : f \in Failures}

\* PUT /api/groups/{id}
HttpUpdateGroup(id, req) ==
    LET old == CHOOSE g \in groups : g.ID = id
        new == [ID |-> id, GroupName |-> req.GroupName,
                FriendlyName |-> req.FriendlyName, CustomClaims |-> req.CustomClaims]
    IN  (IF ~\E g \in groups : g.ID = id
         THEN {[resp |-> Resp(StatusNotFound, NoGroup), groups |-> groups]}
         ELSE IF \E g \in groups : g.ID # id /\ g.GroupName = req.GroupName
         THEN {[resp |-> Resp(StatusBadRequest, NoGroup), groups |-> groups]}
         ELSE {[resp |-> Resp(StatusOK, new), groups |-> (groups \ {old}) \cup {new}]})
        \cup {[resp |-> Resp(f.status, NoGroup), groups |-> groups] : f \in Failures}

\* DELETE /api/groups/{id}: removes the group and its associations.
HttpDeleteGroup(id) ==
    (IF \E g \in groups : g.ID = id
     THEN {[resp |-> Resp(StatusOK, NoGroup), groups |-> {g \in groups : g.ID # id},
            member |-> {m \in member : m[2] # id}]}
     ELSE {[resp |-> Resp(StatusNotFound, NoGroup), groups |-> groups, member |-> member]})
    \cup {[resp |-> Resp(f.status, NoGroup), groups |-> groups, member |-> member] : f \in Failures}

\* A client as the API returns it: with the names of the groups it is in.
ClientView(c) ==
    [ID |-> c.ID, ClientName |-> c.ClientName, ClientSecret |-> "",
     RedirectURIs |-> c.RedirectURIs, PostLogoutURIs |-> c.PostLogoutURIs,
     LaunchURL |-> c.LaunchURL, IsPublic |-> c.IsPublic, RequirePKCE |-> c.RequirePKCE,
     HasLogo |-> c.HasLogo,
     GroupNames |-> {g.GroupName : g \in {x \in groups : <<c.ID, x.ID>> \in member}}]

\* GET /api/oidc/clients
HttpListOIDCClients ==
    {Resp(StatusOK, {ClientView(c) : c \in clients})} \cup {Resp(f.status, {}) : f \in Failures}

\* GET /api/oidc/clients/{id}
HttpGetOIDCClient(id) ==
    (IF \E c \in clients : c.ID = id
     THEN {Resp(StatusOK, ClientView(CHOOSE c \in clients : c.ID = id))}
     ELSE {Resp(StatusNotFound, NoClient)})
    \cup {Resp(f.status, NoClient) : f \in Failures}

\* The stored client a create or update request describes.
StoredClient(id, req, hasLogo) ==
    [ID |-> id, ClientName |-> req.ClientName, RedirectURIs |-> req.RedirectURIs,
     PostLogoutURIs |-> req.PostLogoutURIs, LaunchURL |-> req.LaunchURL,
     IsPublic |-> req.IsPublic, RequirePKCE |-> req.RequirePKCE, HasLogo |-> hasLogo]

\* POST /api/oidc/clients: the answer carries the secret of a confidential
\* client and none for a public one; in the scenario "secrets" the remote is
\* not trusted to keep to that.
HttpCreateOIDCClient(req) ==
    LET new == StoredClient(NewID("c", nextId + 1), req, FALSE)
        issued == IF env.scenario = "secrets" THEN {"", "secret"}
                  ELSE {IF req.IsPublic THEN "" ELSE "secret"}
    IN  (IF \E c \in clients : c.ClientName = req.ClientName
         THEN {[resp |-> Resp(StatusBadRequest, NoClient), clients |-> clients, made |-> 0]}
         ELSE IF nextId < MaxCreates
         THEN {[resp |-> Resp(StatusOK, [ClientView(new) EXCEPT !.ClientSecret = s]),
                 clients |-> clients \cup {new}, made |-> 1] : s \in issued}
         ELSE {})
        \cup {[resp |-> Resp(f.status, NoClient), clients |-> clients, made |-> 0] : f \in Failures}

\* PUT /api/oidc/clients/{id}
HttpUpdateOIDCClient(id, req) ==
    LET old == CHOOSE c \in clients : c.ID = id
        new == StoredClient(id, req, old.HasLogo)
    IN  (IF ~\E c \in clients : c.ID = id
         THEN {[resp |-> Resp(StatusNotFound, NoClient), clients |-> clients]}
         ELSE IF \E c \in clients : c.ID # id /\ c.ClientName = req.ClientName
         THEN {[resp |-> Resp(StatusBadRequest, NoClient), clients |-> clients]}
         ELSE {[resp |-> Resp(StatusOK, ClientView(new)),
                clients |-> (clients \ {old}) \cup {new}]})
        \cup {[resp |-> Resp(f.status, NoClient), clients |-> clients] : f \in Failures}

\* DELETE /api/oidc/clients/{id}: removes the client and its associations.
HttpDeleteOIDCClient(id) ==
    (IF \E c \in clients : c.ID = id
     THEN {[resp |-> Resp(StatusOK, NoClient), clients |-> {c \in clients : c.ID # id},
            member |-> {m \in member : m[1] # id}]}
     ELSE {[resp |-> Resp(StatusNotFound, NoClient), clients |-> clients, member |-> member]})
    \cup {[resp |-> Resp(f.status, NoClient), clients |-> clients, member |-> member] : f \in Failures}

\* The logo upload (download of the URL, then PUT .../logo): it succeeds and
\* the client has a logo, or it fails somewhere and nothing changes.
HttpUploadLogo(cs, id) ==
    (IF \E c \in cs : c.ID = id
     THEN {[ok |-> TRUE, clients |-> {IF c.ID = id THEN [c EXCEPT !.HasLogo = TRUE] ELSE c :
                                        c \in cs}]}
     ELSE {[ok |-> FALSE, clients |-> cs]})
    \cup {[ok |-> FALSE, clients |-> cs] : f \in Failures}

\* GET /api/users
HttpListUsers ==
    {Resp(StatusOK, users)} \cup {Resp(f.status, {}) : f \in Failures}

\* POST /api/users: usernames are unique.
HttpCreateUser(req) ==
    LET new == [ID |-> NewID("u", nextId + 1), Username |-> req.Username, Email |-> req.Email,
                FirstName |-> req.FirstName, LastName |-> req.LastName,
                Locale |-> req.Locale, Disabled |-> req.Disabled, IsAdmin |-> req.IsAdmin,
                UserGroups |-> {}, CustomClaims |-> req.CustomClaims]
    IN  (IF \E u \in users : u.Username = req.Username
         THEN {[resp |-> Resp(StatusBadRequest, NoUser), users |-> users, made |-> 0]}
         ELSE IF nextId < MaxCreates
         THEN {[resp |-> Resp(StatusOK, new), users |-> users \cup {new}, made |-> 1]}
         ELSE {})
        \cup {[resp |-> Resp(f.status, NoUser), users |-> users, made |-> 0] : f \in Failures}

\* PUT /api/users/{id}: the fields of the request replace the stored ones.
HttpUpdateUser(id, req) ==
    LET old == CHOOSE u \in users : u.ID = id
        new == [old EXCEPT !.Username = req.Username, !.Email = req.Email,
                           !.FirstName = req.FirstName, !.LastName = req.LastName,
                           !.Locale = req.Locale, !.Disabled = req.Disabled,
                           !.CustomClaims = req.CustomClaims]
    IN  (IF ~\E u \in users : u.ID = id
         THEN {[resp |-> Resp(StatusNotFound, NoUser), users |-> users]}
         ELSE IF \E u \in users : u.ID # id /\ u.Username = req.Username
         THEN {[resp |-> Resp(StatusBadRequest, NoUser), users |-> users]}
         ELSE {[resp |-> Resp(StatusOK, new), users |-> (users \ {old}) \cup {new}]})
        \cup {[resp |-> Resp(f.status, NoUser), users |-> users] : f \in Failures}

\* DELETE /api/users/{id}
HttpDeleteUser(id) ==
    (IF \E u \in users : u.ID = id
     THEN {[resp |-> Resp(StatusOK, NoUser), users |-> {u \in users : u.ID # id}]}
     ELSE {[resp |-> Resp(StatusNotFound, NoUser), users |-> users]})
    \cup {[resp |-> Resp(f.status, NoUser), users |-> users] : f \in Failures}

\* POST /api/oidc/clients/{c}/groups/{g}: both objects must exist.
HttpAddClientToGroup(clientID, groupID) ==
    (IF (\E c \in clients : c.ID = clientID) /\ (\E g \in groups : g.ID = groupID)
     THEN {[resp |-> Resp(StatusOK, NoGroup), member |-> member \cup {<<clientID, groupID>>}]}
     ELSE {[resp |-> Resp(StatusNotFound, NoGroup), member |-> member]})
    \cup {[resp |-> Resp(f.status, NoGroup), member |-> member] : f \in Failures}

\* DELETE /api/oidc/clients/{c}/groups/{g}
HttpRemoveClientFromGroup(clientID, groupID) ==
    (IF <<clientID, groupID>> \in member
     THEN {[resp |-> Resp(StatusOK, NoGroup), member |-> member \ {<<clientID, groupID>>}]}
     ELSE {[resp |-> Resp(StatusNotFound, NoGroup), member |-> member]})
    \cup {[resp |-> Resp(f.status, NoGroup), member |-> member] : f \in Failures}

----------------------------------------------------------------------------
(* Group controller *)

\* isGroupUpToDate
equalStringMaps(a, b) ==
    /\ Cardinality(DOMAIN a) = Cardinality(DOMAIN b)
    /\ \A k \in DOMAIN a : (IF k \in DOMAIN b THEN b[k] ELSE "") = a[k]

isGroupUpToDate(spec, group) ==
    IF spec.Name # group.GroupName THEN FALSE
    ELSE IF spec.FriendlyName # group.FriendlyName THEN FALSE
    ELSE IF ~equalStringMaps(spec.CustomClaims, group.CustomClaims) THEN FALSE
    ELSE TRUE

\* The result of a handler: the managed resource as the handler leaves it,
\* the observation (Observe only) and the error ("" for none).
Result(c, exists, upToDate, err) ==
    [cr |-> c, exists |-> exists, upToDate |-> upToDate, err |-> err]

\* A lookup that follows the declared name instead of the recorded one.
GroupLookupKeyDeclared(c) == c.spec.Name

\* The external name Observe looks the remote object up by.
GroupLookupKey(c) ==
    IF GetExternalName(c) = "" THEN c.spec.Name ELSE GetExternalName(c)

\* An Observe that reports a group it did not find as present.
GroupObservePresent(c, resp) ==
    LET got == GetGroupByExternalName(resp, GroupLookupKey(c))
        group == got.obj
        c1 == [c EXCEPT !.at = [ID |-> group.ID, Name |-> group.GroupName,
                                FriendlyName |-> group.FriendlyName,
                                CustomClaims |-> group.CustomClaims]]
        c2 == IF GetExternalName(c1) = "" THEN SetExternalName(c1, group.GroupName) ELSE c1
    IN  IF got.err THEN Result(c, FALSE, FALSE, "failed to get group")
        ELSE IF ~got.found THEN Result(c, TRUE, FALSE, "")
        ELSE Result(SetConditions(c2, Available), TRUE, isGroupUpToDate(c2.spec, group), "")

\* An Observe that records the lookup key as the identity when nothing is found.
GroupObserveEager(c, resp) ==
    LET externalName == GroupLookupKey(c)
        got == GetGroupByExternalName(resp, externalName)
        group == got.obj
        c1 == [c EXCEPT !.at = [ID |-> group.ID, Name |-> group.GroupName,
                                FriendlyName |-> group.FriendlyName,
                                CustomClaims |-> group.CustomClaims]]
        c2 == IF GetExternalName(c1) = "" THEN SetExternalName(c1, group.GroupName) ELSE c1
        upToDate == isGroupUpToDate(c2.spec, group)
        c3 == SetConditions(c2, Available)
    IN  IF got.err THEN Result(c, FALSE, FALSE, "failed to get group")
        ELSE IF ~got.found THEN Result([c EXCEPT !.at.ID = externalName], FALSE, FALSE, "")
        ELSE Result(c3, TRUE, upToDate, "")

\* An Observe that clears the condition when the lookup fails.
GroupObserveResetting(c, resp) ==
    LET externalName == GroupLookupKey(c)
        got == GetGroupByExternalName(resp, externalName)
        group == got.obj
        c1 == [c EXCEPT !.at = [ID |-> group.ID, Name |-> group.GroupName,
                                FriendlyName |-> group.FriendlyName,
                                CustomClaims |-> group.CustomClaims]]
        c2 == IF GetExternalName(c1) = "" THEN SetExternalName(c1, group.GroupName) ELSE c1
        upToDate == isGroupUpToDate(c2.spec, group)
        c3 == SetConditions(c2, Available)
    IN  IF got.err THEN Result([c EXCEPT !.cond = ""], FALSE, FALSE, "failed to get group")
        ELSE IF ~got.found THEN Result(c, FALSE, FALSE, "")
        ELSE Result(c3, TRUE, upToDate, "")

\* group external.Observe
GroupObserve(c, resp) ==
    LET externalName == GroupLookupKey(c)
        got == GetGroupByExternalName(resp, externalName)
        group == got.obj
        c1 == [c EXCEPT !.at = [ID |-> group.ID, Name |-> group.GroupName,
                                FriendlyName |-> group.FriendlyName,
                                CustomClaims |-> group.CustomClaims]]
        c2 == IF GetExternalName(c1) = "" THEN SetExternalName(c1, group.GroupName) ELSE c1
        upToDate == isGroupUpToDate(c2.spec, group)
        c3 == SetConditions(c2, Available)
    IN  IF got.err THEN Result(c, FALSE, FALSE, "failed to get group")
        ELSE IF ~got.found THEN Result(c, FALSE, FALSE, "")
        ELSE Result(c3, TRUE, upToDate, "")

\* A request that leaves the friendly name out.
GroupRequestPartial(c) ==
    [GroupName |-> c.spec.Name, FriendlyName |-> "", CustomClaims |-> c.spec.CustomClaims]

\* The request group external.Create and Update send.
GroupRequest(c) ==
    [GroupName |-> c.spec.Name, FriendlyName |-> c.spec.FriendlyName,
     CustomClaims |-> c.spec.CustomClaims]

\* A Create that does not record the external name.
GroupCreateUnnamed(c, resp) ==
    IF CreateGroup(resp).err THEN Result(c, FALSE, FALSE, "failed to create group")
    ELSE Result(c, FALSE, FALSE, "")

\* group external.Create, after the POST answered resp.
GroupCreate(c, resp) ==
    LET got == CreateGroup(resp)
    IN  IF got.err THEN Result(c, FALSE, FALSE, "failed to create group")
        ELSE Result(SetExternalName(c, got.obj.GroupName), FALSE, FALSE, "")

\* group external.Update: refuses to call without an ID in status.
GroupUpdateHasID(c) == c.at.ID # ""

\* An Update that re-records the external name from the Spec.
GroupUpdateRenaming(c, resp) ==
    IF UpdateGroup(resp).err THEN Result(c, FALSE, FALSE, "failed to update group")
    ELSE Result(SetExternalName(c, c.spec.Name), FALSE, FALSE, "")

\* group external.Update, after the PUT answered resp.
GroupUpdate(c, resp) ==
    IF UpdateGroup(resp).err THEN Result(c, FALSE, FALSE, "failed to update group")
    ELSE Result(c, FALSE, FALSE, "")

\* group external.Delete: calls the remote only with an ID in status.
\* A Delete that calls the remote whatever the recorded identity.
GroupDeleteCallsAlways(c) == TRUE

GroupDeleteCalls(c) == c.at.ID # ""

GroupDelete(c, resp) ==
    IF DeleteGroup(resp) THEN Result(c, FALSE, FALSE, "failed to delete group")
    ELSE Result(c, FALSE, FALSE, "")

----------------------------------------------------------------------------
(* OIDC client controller *)

Range(s) == {s[i] : i \in 1..Len(s)}

Count(s, x) == Cardinality({i \in 1..Len(s) : s[i] = x})

\* A comparison of the lists as sets of equal length.
equalStringSlicesAsSets(a, b) ==
    IF Len(a) # Len(b) THEN FALSE
    ELSE \A k \in Range(a) : Count(b, k) > 0

\* equalStringSlices: equal lengths and equal occurrence counts.
equalStringSlices(a, b) ==
    IF Len(a) # Len(b) THEN FALSE
    ELSE \A k \in Range(a) : Count(b, k) = Count(a, k)

\* A drift detector that also compares the declared logo with the has-logo flag.
isOIDCClientUpToDateWithLogo(spec, client) ==
    IF spec.Name # client.ClientName THEN FALSE
    ELSE IF spec.LaunchURL # client.LaunchURL THEN FALSE
    ELSE IF spec.IsPublic # client.IsPublic THEN FALSE
    ELSE IF spec.PkceEnabled # client.RequirePKCE THEN FALSE
    ELSE IF ~equalStringSlices(spec.CallbackURLs, client.RedirectURIs) THEN FALSE
    ELSE IF ~equalStringSlices(spec.LogoutCallbackURLs, client.PostLogoutURIs) THEN FALSE
    ELSE (spec.LogoURL # "") = client.HasLogo

isOIDCClientUpToDate(spec, client) ==
    IF spec.Name # client.ClientName THEN FALSE
    ELSE IF spec.LaunchURL # client.LaunchURL THEN FALSE
    ELSE IF spec.IsPublic # client.IsPublic THEN FALSE
    ELSE IF spec.PkceEnabled # client.RequirePKCE THEN FALSE
    ELSE IF ~equalStringSlices(spec.CallbackURLs, client.RedirectURIs) THEN FALSE
    ELSE IF ~equalStringSlices(spec.LogoutCallbackURLs, client.PostLogoutURIs) THEN FALSE
    ELSE TRUE

OIDCClientLookupKey(c) ==
    IF GetExternalName(c) = "" THEN c.spec.Name ELSE GetExternalName(c)

\* An Observe that refreshes the Status snapshot only when there is no drift.
OIDCClientObserveKeepingStatus(c, resp) ==
    LET externalName == OIDCClientLookupKey(c)
        got == GetOIDCClientByExternalName(resp, externalName)
        client == got.obj
        c1 == [c EXCEPT !.at = [ID |-> client.ID, Name |-> client.ClientName,
                                CallbackURLs |-> client.RedirectURIs,
                                LogoutCallbackURLs |-> client.PostLogoutURIs,
                                LaunchURL |-> client.LaunchURL,
                                IsPublic |-> client.IsPublic,
                                PkceEnabled |-> client.RequirePKCE,
                                HasLogo |-> client.HasLogo]]
        c2 == IF GetExternalName(c1) = "" THEN SetExternalName(c1, client.ClientName) ELSE c1
        upToDate == isOIDCClientUpToDate(c2.spec, client)
        c3 == SetConditions(c2, Available)
    IN  IF got.err THEN Result(c, FALSE, FALSE, "failed to get OIDC client")
        ELSE IF ~got.found THEN Result(c, FALSE, FALSE, "")
        ELSE IF ~upToDate THEN Result([c3 EXCEPT !.at = c.at], TRUE, upToDate, "")
        ELSE Result(c3, TRUE, upToDate, "")

\* oidcclient external.Observe
OIDCClientObserve(c, resp) ==
    LET externalName == OIDCClientLookupKey(c)
        got == GetOIDCClientByExternalName(resp, externalName)
        client == got.obj
        c1 == [c EXCEPT !.at = [ID |-> client.ID, Name |-> client.ClientName,
                                CallbackURLs |-> client.RedirectURIs,
                                LogoutCallbackURLs |-> client.PostLogoutURIs,
                                LaunchURL |-> client.LaunchURL,
                                IsPublic |-> client.IsPublic,
                                PkceEnabled |-> client.RequirePKCE,
                                HasLogo |-> client.HasLogo]]
        c2 == IF GetExternalName(c1) = "" THEN SetExternalName(c1, client.ClientName) ELSE c1
        upToDate == isOIDCClientUpToDate(c2.spec, client)
        c3 == SetConditions(c2, Available)
    IN  IF got.err THEN Result(c, FALSE, FALSE, "failed to get OIDC client")
        ELSE IF ~got.found THEN Result(c, FALSE, FALSE, "")
        ELSE Result(c3, TRUE, upToDate, "")

\* A request that leaves the logout callbacks out.
OIDCClientRequestWithoutLogout(c) ==
    [ClientName |-> c.spec.Name, RedirectURIs |-> c.spec.CallbackURLs,
     PostLogoutURIs |-> <<>>, LaunchURL |-> c.spec.LaunchURL,
     IsPublic |-> c.spec.IsPublic, RequirePKCE |-> c.spec.PkceEnabled]

\* The request oidcclient external.Create and Update send.
OIDCClientRequest(c) ==
    [ClientName |-> c.spec.Name, RedirectURIs |-> c.spec.CallbackURLs,
     PostLogoutURIs |-> c.spec.LogoutCallbackURLs, LaunchURL |-> c.spec.LaunchURL,
     IsPublic |-> c.spec.IsPublic, RequirePKCE |-> c.spec.PkceEnabled]

\* Whether Create and Update go on to upload the logo.
OIDCClientUploadsLogo(c, err) == ~err /\ c.spec.LogoURL # ""

\* A Create that fails when the logo upload fails.
OIDCClientCreateStrict(c, resp, uploadOK) ==
    LET got == CreateOIDCClient(resp)
    IN  IF got.err THEN Result(c, FALSE, FALSE, "failed to create OIDC client")
        ELSE IF ~uploadOK THEN Result(c, FALSE, FALSE, "failed to upload logo")
        ELSE Result(SetExternalName(c, got.obj.ClientName), FALSE, FALSE, "")

\* oidcclient external.Create, after the POST answered resp; the result of the
\* logo upload is discarded.
OIDCClientCreate(c, resp, uploadOK) ==
    LET got == CreateOIDCClient(resp)
    IN  IF got.err THEN Result(c, FALSE, FALSE, "failed to create OIDC client")
        ELSE Result(SetExternalName(c, got.obj.ClientName), FALSE, FALSE, "")

\* Connection details that carry the secret of a public client too.
OIDCClientConnectionDetailsOfAny(resp) ==
    LET got == CreateOIDCClient(resp)
    IN  IF ~got.err /\ got.obj.ClientSecret # ""
        THEN [clientSecret |-> got.obj.ClientSecret]
        ELSE EmptyMap

\* The connection details Create returns.
OIDCClientConnectionDetails(resp) ==
    LET got == CreateOIDCClient(resp)
    IN  IF ~got.err /\ ~got.obj.IsPublic /\ got.obj.ClientSecret # ""
        THEN [clientSecret |-> got.obj.ClientSecret]
        ELSE EmptyMap

\* The clientSecret entry of connection details ("" when there is none).
ClientSecretOf(details) ==
    IF "clientSecret" \in DOMAIN details THEN details.clientSecret ELSE ""

OIDCClientUpdateHasID(c) == c.at.ID # ""

\* oidcclient external.Update
OIDCClientUpdate(c, resp, uploadOK) ==
    IF UpdateOIDCClient(resp).err THEN Result(c, FALSE, FALSE, "failed to update OIDC client")
    ELSE Result(c, FALSE, FALSE, "")

OIDCClientDeleteCalls(c) == c.at.ID # ""

\* oidcclient external.Delete
OIDCClientDelete(c, resp) ==
    IF DeleteOIDCClient(resp) THEN Result(c, FALSE, FALSE, "failed to delete OIDC client")
    ELSE Result(c, FALSE, FALSE, "")

----------------------------------------------------------------------------
(* Admin user controller *)

\* A drift detector that reads a missing claim as the empty string.
isAdminUserUpToDateByLookup(spec, user) ==
    IF spec.Username # user.Username THEN FALSE
    ELSE IF spec.Email # user.Email THEN FALSE
    ELSE IF spec.FirstName # user.FirstName THEN FALSE
    ELSE IF spec.LastName # user.LastName THEN FALSE
    ELSE IF spec.Locale # user.Locale THEN FALSE
    ELSE IF spec.Disabled # user.Disabled THEN FALSE
    ELSE equalStringMaps(spec.CustomClaims, user.CustomClaims)

\* isAdminUserUpToDate
isAdminUserUpToDate(spec, user) ==
    IF spec.Username # user.Username THEN FALSE
    ELSE IF spec.Email # user.Email THEN FALSE
    ELSE IF spec.FirstName # user.FirstName THEN FALSE
    ELSE IF spec.LastName # user.LastName THEN FALSE
    ELSE IF spec.Locale # user.Locale THEN FALSE
    ELSE IF spec.Disabled # user.Disabled THEN FALSE
    ELSE IF Cardinality(DOMAIN spec.CustomClaims) # Cardinality(DOMAIN user.CustomClaims)
         THEN FALSE
    ELSE \A k \in DOMAIN spec.CustomClaims :
            k \in DOMAIN user.CustomClaims /\ user.CustomClaims[k] = spec.CustomClaims[k]

AdminUserLookupKey(c) ==
    IF GetExternalName(c) = "" THEN c.spec.Username ELSE GetExternalName(c)

\* An Observe that writes Status before it checks the admin flag.
AdminUserObserveRecordingFirst(c, resp) ==
    LET externalName == AdminUserLookupKey(c)
        got == GetUserByExternalName(resp, externalName)
        user == got.obj
        c1 == [c EXCEPT !.at = [ID |-> user.ID, Username |-> user.Username,
                                Email |-> user.Email, FirstName |-> user.FirstName,
                                LastName |-> user.LastName, Locale |-> user.Locale,
                                Disabled |-> user.Disabled, IsAdmin |-> user.IsAdmin,
                                UserGroups |-> user.UserGroups,
                                CustomClaims |-> user.CustomClaims]]
        c2 == IF GetExternalName(c1) = "" THEN SetExternalName(c1, user.Username) ELSE c1
        upToDate == isAdminUserUpToDate(c2.spec, user)
        c3 == SetConditions(c2, Available)
    IN  IF got.err THEN Result(c, FALSE, FALSE, "failed to get admin user")
        ELSE IF ~got.found THEN Result(c, FALSE, FALSE, "")
        ELSE IF ~user.IsAdmin
             THEN Result(c1, FALSE, FALSE, "user exists but is not an admin user")
        ELSE Result(c3, TRUE, upToDate, "")

\* An Observe without the admin check.
AdminUserObserveAnyUser(c, resp) ==
    LET got == GetUserByExternalName(resp, AdminUserLookupKey(c))
        user == got.obj
        c1 == [c EXCEPT !.at = [ID |-> user.ID, Username |-> user.Username,
                                Email |-> user.Email, FirstName |-> user.FirstName,
                                LastName |-> user.LastName, Locale |-> user.Locale,
                                Disabled |-> user.Disabled, IsAdmin |-> user.IsAdmin,
                                UserGroups |-> user.UserGroups,
                                CustomClaims |-> user.CustomClaims]]
        c2 == IF GetExternalName(c1) = "" THEN SetExternalName(c1, user.Username) ELSE c1
    IN  IF got.err THEN Result(c, FALSE, FALSE, "failed to get admin user")
        ELSE IF ~got.found THEN Result(c, FALSE, FALSE, "")
        ELSE Result(SetConditions(c2, Available), TRUE, isAdminUserUpToDate(c2.spec, user), "")

\* An Observe that keeps an identity it had already recorded.
AdminUserObserveKeepingID(c, resp) ==
    LET externalName == AdminUserLookupKey(c)
        got == GetUserByExternalName(resp, externalName)
        user == got.obj
        c1 == [c EXCEPT !.at = [ID |-> IF c.at.ID # "" THEN c.at.ID ELSE user.ID,
                                Username |-> user.Username,
                                Email |-> user.Email, FirstName |-> user.FirstName,
                                LastName |-> user.LastName, Locale |-> user.Locale,
                                Disabled |-> user.Disabled, IsAdmin |-> user.IsAdmin,
                                UserGroups |-> user.UserGroups,
                                CustomClaims |-> user.CustomClaims]]
        c2 == IF GetExternalName(c1) = "" THEN SetExternalName(c1, user.Username) ELSE c1
        upToDate == isAdminUserUpToDate(c2.spec, user)
        c3 == SetConditions(c2, Available)
    IN  IF got.err THEN Result(c, FALSE, FALSE, "failed to get admin user")
        ELSE IF ~got.found THEN Result(c, FALSE, FALSE, "")
        ELSE IF ~user.IsAdmin
             THEN Result(c, FALSE, FALSE, "user exists but is not an admin user")
        ELSE Result(c3, TRUE, upToDate, "")

\* adminuser external.Observe
AdminUserObserve(c, resp) ==
    LET externalName == AdminUserLookupKey(c)
        got == GetUserByExternalName(resp, externalName)
        user == got.obj
        c1 == [c EXCEPT !.at = [ID |-> user.ID, Username |-> user.Username,
                                Email |-> user.Email, FirstName |-> user.FirstName,
                                LastName |-> user.LastName, Locale |-> user.Locale,
                                Disabled |-> user.Disabled, IsAdmin |-> user.IsAdmin,
                                UserGroups |-> user.UserGroups,
                                CustomClaims |-> user.CustomClaims]]
        c2 == IF GetExternalName(c1) = "" THEN SetExternalName(c1, user.Username) ELSE c1
        upToDate == isAdminUserUpToDate(c2.spec, user)
        c3 == SetConditions(c2, Available)
    IN  IF got.err THEN Result(c, FALSE, FALSE, "failed to get admin user")
        ELSE IF ~got.found THEN Result(c, FALSE, FALSE, "")
        ELSE IF ~user.IsAdmin
             THEN Result(c, FALSE, FALSE, "user exists but is not an admin user")
        ELSE Result(c3, TRUE, upToDate, "")

\* A creation request that leaves the admin flag unset.
AdminUserCreateRequestPlain(c) ==
    [Username |-> c.spec.Username, Email |-> c.spec.Email, FirstName |-> c.spec.FirstName,
     LastName |-> c.spec.LastName, Locale |-> c.spec.Locale, Disabled |-> c.spec.Disabled,
     IsAdmin |-> FALSE, CustomClaims |-> c.spec.CustomClaims]

\* The request adminuser external.Create sends: always an admin.
AdminUserCreateRequest(c) ==
    [Username |-> c.spec.Username, Email |-> c.spec.Email, FirstName |-> c.spec.FirstName,
     LastName |-> c.spec.LastName, Locale |-> c.spec.Locale, Disabled |-> c.spec.Disabled,
     IsAdmin |-> TRUE, CustomClaims |-> c.spec.CustomClaims]

\* The request adminuser external.Update sends: no admin flag.
AdminUserUpdateRequest(c) ==
    [Username |-> c.spec.Username, Email |-> c.spec.Email, FirstName |-> c.spec.FirstName,
     LastName |-> c.spec.LastName, Locale |-> c.spec.Locale, Disabled |-> c.spec.Disabled,
     CustomClaims |-> c.spec.CustomClaims]

\* adminuser external.Create
AdminUserCreate(c, resp) ==
    LET got == CreateUser(resp)
    IN  IF got.err THEN Result(c, FALSE, FALSE, "failed to create admin user")
        ELSE Result(SetExternalName(c, got.obj.Username), FALSE, FALSE, "")

AdminUserUpdateHasID(c) == c.at.ID # ""

\* adminuser external.Update
AdminUserUpdate(c, resp) ==
    IF UpdateUser(resp).err THEN Result(c, FALSE, FALSE, "failed to update admin user")
    ELSE Result(c, FALSE, FALSE, "")

AdminUserDeleteCalls(c) == c.at.ID # ""

\* adminuser external.Delete
AdminUserDelete(c, resp) ==
    IF DeleteUser(resp) THEN Result(c, FALSE, FALSE, "failed to delete admin user")
    ELSE Result(c, FALSE, FALSE, "")

----------------------------------------------------------------------------
(* One reconciliation cycle of a declared resource: Observe, then the one   *)
(* step the observation and the deletion marker call for.                   *)

Call(op, target, status) == [op |-> op, target |-> target, status |-> status]

CycleZero ==
    [phase |-> "done", pending |-> "None", outcome |-> "None", key |-> "",
     found |-> FALSE, exists |-> FALSE, upToDate |-> FALSE, deleted |-> FALSE,
     err |-> "", mut |-> "None", calls |-> {}, ids |-> <<"", "">>, spec |-> <<>>,
     secret |-> ""]

\* The errors of reference resolution, as Observe, Create and Delete wrap them.
errResolveClientID == "cannot resolve client ID"
errResolveGroupID == "cannot resolve group ID"

\* What follows an Observe that returned res on a resource whose deletion
\* marker is `deleted`.
Decide(res, deleted) ==
    IF res.err # "" THEN "Fail"
    ELSE IF ~res.exists THEN (IF deleted THEN "Deleted" ELSE "Create")
    ELSE IF deleted THEN "Delete"
    ELSE IF res.upToDate THEN "Current"
    ELSE "Update"

\* The outcome a cycle that failed with err reports.
HealthOf(err) ==
    IF err \in {errResolveClientID, errResolveGroupID} THEN "Unresolved"
    ELSE IF err = "user exists but is not an admin user" THEN "InvariantViolated"
    ELSE "Unavailable"

\* A cycle of r may start: r is declared and its previous cycle is over.
CycleStart(r, kind) ==
    /\ KindOf(r) = kind
    /\ cr[r].exists
    /\ cyc[r].phase = "done"

\* The cycle of r is at the step `op`.
Pending(r, kind, op) ==
    /\ KindOf(r) = kind
    /\ cyc[r].phase = "observed"
    /\ cyc[r].pending = op

\* End of the Observe step: the resource as Observe left it is stored, and
\* the cycle ends or goes on to its one mutation.
AfterObserve(r, res, key, found, calls, ids) ==
    LET d == Decide(res, cr[r].deleted)
        goesOn == d \in {"Create", "Update", "Delete"}
    IN  /\ cr' = [cr EXCEPT ![r] = IF d = "Deleted" THEN [res.cr EXCEPT !.exists = FALSE]
                                   ELSE res.cr]
        /\ cyc' = [cyc EXCEPT ![r] =
                     [phase |-> IF goesOn THEN "observed" ELSE "done",
                      pending |-> IF goesOn THEN d ELSE "None",
                      outcome |-> IF d = "Fail" THEN HealthOf(res.err)
                                  ELSE IF goesOn THEN "Pending" ELSE d,
                      key |-> key, found |-> found,
                      exists |-> res.exists, upToDate |-> res.upToDate,
                      deleted |-> cr[r].deleted,
                      err |-> res.err, mut |-> "None", calls |-> calls, ids |-> ids,
                      spec |-> cr[r].spec, secret |-> ""]]

\* End of the mutation step `op` of the cycle; `secret` is the clientSecret
\* entry of the connection details the handler returned ("" for none).
AfterMutateReturning(r, res, op, calls, secret) ==
    /\ cr' = [cr EXCEPT ![r] = res.cr]
    /\ cyc' = [cyc EXCEPT ![r].phase = "done", ![r].pending = "None",
                          ![r].mut = op, ![r].err = res.err,
                          ![r].outcome = IF res.err # "" THEN HealthOf(res.err)
                                         ELSE IF op = "Create" THEN "Created"
                                         ELSE IF op = "Update" THEN "Updated"
                                         ELSE "Deleting",
                          ![r].calls = @ \cup calls,
                          ![r].secret = secret]

\* End of a mutation step that returns no connection details.
AfterMutate(r, res, op, calls) == AfterMutateReturning(r, res, op, calls, "")

----------------------------------------------------------------------------
(* OIDC client group binding controller *)

BindingObservationZero == [Client |-> OIDCClientObservationZero, Group |-> GroupObservationZero]

\* kube.Get of the declared resource `name` of kind `kind`.
KubeGet(all, name, kind) ==
    name \in Resources /\ KindOf(name) = kind /\ all[name].exists

\* A resolveClientID without the check for an empty observed ID.
resolveClientIDUnchecked(c, all) ==
    IF c.spec.ClientID # "" THEN [id |-> c.spec.ClientID, err |-> ""]
    ELSE IF c.spec.ClientIDRef # ""
         THEN IF ~KubeGet(all, c.spec.ClientIDRef, "client")
              THEN [id |-> "", err |-> "failed to get referenced OIDC client"]
              ELSE [id |-> all[c.spec.ClientIDRef].at.ID, err |-> ""]
    ELSE [id |-> "", err |-> "client ID, clientIdRef, or clientIdSelector must be specified"]

\* A resolveClientID that follows the pointer before it looks at the literal.
resolveClientIDPointerFirst(c, all) ==
    IF c.spec.ClientIDRef # ""
    THEN IF ~KubeGet(all, c.spec.ClientIDRef, "client")
         THEN [id |-> "", err |-> "failed to get referenced OIDC client"]
         ELSE IF all[c.spec.ClientIDRef].at.ID = ""
         THEN [id |-> "", err |-> "referenced OIDC client ID is not available"]
         ELSE [id |-> all[c.spec.ClientIDRef].at.ID, err |-> ""]
    ELSE IF c.spec.ClientID # "" THEN [id |-> c.spec.ClientID, err |-> ""]
    ELSE [id |-> "", err |-> "client ID, clientIdRef, or clientIdSelector must be specified"]

\* resolveClientID: the literal, else the referenced OIDCClient's observed ID.
\* A nil ClientIDRef is the empty name.
resolveClientID(c, all) ==
    IF c.spec.ClientID # "" THEN [id |-> c.spec.ClientID, err |-> ""]
    ELSE IF c.spec.ClientIDRef # ""
         THEN IF ~KubeGet(all, c.spec.ClientIDRef, "client")
              THEN [id |-> "", err |-> "failed to get referenced OIDC client"]
              ELSE IF all[c.spec.ClientIDRef].at.ID = ""
              THEN [id |-> "", err |-> "referenced OIDC client ID is not available"]
              ELSE [id |-> all[c.spec.ClientIDRef].at.ID, err |-> ""]
    ELSE [id |-> "", err |-> "client ID, clientIdRef, or clientIdSelector must be specified"]

\* A resolveGroupID that lets a selector pick the declared group.
resolveGroupIDSelecting(c, all) ==
    IF c.spec.GroupID # "" THEN [id |-> c.spec.GroupID, err |-> ""]
    ELSE IF c.spec.GroupIDRef # ""
         THEN IF ~KubeGet(all, c.spec.GroupIDRef, "group")
              THEN [id |-> "", err |-> "failed to get referenced group"]
              ELSE IF all[c.spec.GroupIDRef].at.ID = ""
              THEN [id |-> "", err |-> "referenced group ID is not available"]
              ELSE [id |-> all[c.spec.GroupIDRef].at.ID, err |-> ""]
    ELSE IF c.spec.GroupIDSelector THEN [id |-> "g0", err |-> ""]
    ELSE [id |-> "", err |-> "group ID, groupIdRef, or groupIdSelector must be specified"]

\* A resolveGroupID without the check for an empty observed ID.
resolveGroupIDUnchecked(c, all) ==
    IF c.spec.GroupID # "" THEN [id |-> c.spec.GroupID, err |-> ""]
    ELSE IF c.spec.GroupIDRef # ""
         THEN IF ~KubeGet(all, c.spec.GroupIDRef, "group")
              THEN [id |-> "", err |-> "failed to get referenced group"]
              ELSE [id |-> all[c.spec.GroupIDRef].at.ID, err |-> ""]
    ELSE [id |-> "", err |-> "group ID, groupIdRef, or groupIdSelector must be specified"]

\* resolveGroupID: the literal, else the referenced Group's observed ID.
resolveGroupID(c, all) ==
    IF c.spec.GroupID # "" THEN [id |-> c.spec.GroupID, err |-> ""]
    ELSE IF c.spec.GroupIDRef # ""
         THEN IF ~KubeGet(all, c.spec.GroupIDRef, "group")
              THEN [id |-> "", err |-> "failed to get referenced group"]
              ELSE IF all[c.spec.GroupIDRef].at.ID = ""
              THEN [id |-> "", err |-> "referenced group ID is not available"]
              ELSE [id |-> all[c.spec.GroupIDRef].at.ID, err |-> ""]
    ELSE [id |-> "", err |-> "group ID, groupIdRef, or groupIdSelector must be specified"]

\* The error of resolving both references, client first ("" for none).
ResolveError(c, all) ==
    IF resolveClientID(c, all).err # "" THEN errResolveClientID
    ELSE IF resolveGroupID(c, all).err # "" THEN errResolveGroupID
    ELSE ""

\* An IsClientInGroup that fails when the client or the group is absent.
IsClientInGroupStrict(clientResp, groupResp) ==
    LET client == GetOIDCClient(clientResp)
        group == GetGroup(groupResp)
    IN  IF client.err THEN [err |-> TRUE, in |-> FALSE, calls |-> 1]
        ELSE IF ~client.found THEN [err |-> TRUE, in |-> FALSE, calls |-> 1]
        ELSE IF group.err THEN [err |-> TRUE, in |-> FALSE, calls |-> 2]
        ELSE IF ~group.found THEN [err |-> TRUE, in |-> FALSE, calls |-> 2]
        ELSE [err |-> FALSE, in |-> group.obj.GroupName \in client.obj.GroupNames, calls |-> 2]

\* An IsClientInGroup that reports membership whenever both objects exist.
IsClientInGroupByPresence(clientResp, groupResp) ==
    LET client == GetOIDCClient(clientResp)
        group == GetGroup(groupResp)
    IN  IF client.err THEN [err |-> TRUE, in |-> FALSE, calls |-> 1]
        ELSE IF ~client.found THEN [err |-> FALSE, in |-> FALSE, calls |-> 1]
        ELSE IF group.err THEN [err |-> TRUE, in |-> FALSE, calls |-> 2]
        ELSE IF ~group.found THEN [err |-> FALSE, in |-> FALSE, calls |-> 2]
        ELSE [err |-> FALSE, in |-> TRUE, calls |-> 2]

\* IsClientInGroup: the client, then the group, then the group's name among
\* the client's group names.
IsClientInGroup(clientResp, groupResp) ==
    LET client == GetOIDCClient(clientResp)
        group == GetGroup(groupResp)
    IN  IF client.err THEN [err |-> TRUE, in |-> FALSE, calls |-> 1]
        ELSE IF ~client.found THEN [err |-> FALSE, in |-> FALSE, calls |-> 1]
        ELSE IF group.err THEN [err |-> TRUE, in |-> FALSE, calls |-> 2]
        ELSE IF ~group.found THEN [err |-> FALSE, in |-> FALSE, calls |-> 2]
        ELSE [err |-> FALSE, in |-> group.obj.GroupName \in client.obj.GroupNames, calls |-> 2]

\* clientgroupbinding external.Observe up to the membership check.
BindingObserveCheck(c, isIn) ==
    IF isIn.err THEN Result(c, FALSE, FALSE, "failed to check client group binding")
    ELSE IF ~isIn.in THEN Result(c, FALSE, FALSE, "")
    ELSE Result(c, TRUE, TRUE, "")

\* An Observe that rewrites the external name whenever it finds the binding.
BindingObserveFetchRenaming(c, clientID, groupID, clientResp, groupResp) ==
    LET client == GetOIDCClient(clientResp)
        group == GetGroup(groupResp)
        c1 == [c EXCEPT !.at =
                 [Client |-> [ID |-> client.obj.ID, Name |-> client.obj.ClientName,
                              CallbackURLs |-> client.obj.RedirectURIs,
                              LogoutCallbackURLs |-> client.obj.PostLogoutURIs,
                              LaunchURL |-> client.obj.LaunchURL,
                              IsPublic |-> client.obj.IsPublic,
                              PkceEnabled |-> client.obj.RequirePKCE,
                              HasLogo |-> client.obj.HasLogo],
                  Group |-> [ID |-> group.obj.ID, Name |-> group.obj.GroupName,
                             FriendlyName |-> group.obj.FriendlyName,
                             CustomClaims |-> group.obj.CustomClaims]]]
        c2 == SetExternalName(c1, clientID \o ":" \o groupID)
        c3 == SetConditions(c2, Available)
    IN  IF client.err THEN Result(c, FALSE, FALSE, "failed to get OIDC client")
        ELSE IF group.err THEN Result(c, FALSE, FALSE, "failed to get group")
        ELSE IF ~client.found \/ ~group.found
             THEN Result(c, FALSE, FALSE, "panic: nil pointer dereference")
        ELSE Result(c3, TRUE, TRUE, "")

\* clientgroupbinding external.Observe after the membership check: the two
\* fetches for status.  The fields of a fetch that returned nil are read
\* through a nil pointer, which panics.
BindingObserveFetch(c, clientID, groupID, clientResp, groupResp) ==
    LET client == GetOIDCClient(clientResp)
        group == GetGroup(groupResp)
        c1 == [c EXCEPT !.at =
                 [Client |-> [ID |-> client.obj.ID, Name |-> client.obj.ClientName,
                              CallbackURLs |-> client.obj.RedirectURIs,
                              LogoutCallbackURLs |-> client.obj.PostLogoutURIs,
                              LaunchURL |-> client.obj.LaunchURL,
                              IsPublic |-> client.obj.IsPublic,
                              PkceEnabled |-> client.obj.RequirePKCE,
                              HasLogo |-> client.obj.HasLogo],
                  Group |-> [ID |-> group.obj.ID, Name |-> group.obj.GroupName,
                             FriendlyName |-> group.obj.FriendlyName,
                             CustomClaims |-> group.obj.CustomClaims]]]
        c2 == IF GetExternalName(c1) = ""
              THEN SetExternalName(c1, clientID \o ":" \o groupID) ELSE c1
        c3 == SetConditions(c2, Available)
    IN  IF client.err THEN Result(c, FALSE, FALSE, "failed to get OIDC client")
        ELSE IF group.err THEN Result(c, FALSE, FALSE, "failed to get group")
        ELSE IF ~client.found \/ ~group.found
             THEN Result(c, FALSE, FALSE, "panic: nil pointer dereference")
        ELSE Result(c3, TRUE, TRUE, "")

\* clientgroupbinding external.Create, after the POST answered resp.
BindingCreate(c, clientID, groupID, resp) ==
    IF AddClientToGroup(resp)
    THEN Result(c, FALSE, FALSE, "failed to create client group binding")
    ELSE Result(SetExternalName(c, clientID \o ":" \o groupID), FALSE, FALSE, "")

\* An Update that marks the binding Available.
BindingUpdateMarking(c) == Result(SetConditions(c, Available), FALSE, FALSE, "")

\* clientgroupbinding external.Update: a no-op.
BindingUpdate(c) == Result(c, FALSE, FALSE, "")

\* clientgroupbinding external.Delete, after the DELETE answered resp.
BindingDelete(c, resp) ==
    IF RemoveClientFromGroup(resp)
    THEN Result(c, FALSE, FALSE, "failed to delete client group binding")
    ELSE Result(c, FALSE, FALSE, "")

----------------------------------------------------------------------------
(* Group controller steps *)

GroupObserveStep(r) ==
    /\ CycleStart(r, "group")
    /\ \E resp \in HttpListGroups :
         LET res == GroupObserve(cr[r], resp)
             key == GroupLookupKey(cr[r])
             found == \E g \in groups : g.GroupName = key
         IN  AfterObserve(r, res, key, found, {Call("ListGroups", "", resp.status)}, <<"", "">>)
    /\ UNCHANGED <<groups, clients, users, member, nextId, env>>

GroupCreateStep(r) ==
    /\ Pending(r, "group", "Create")
    /\ \E out \in HttpCreateGroup(GroupRequest(cr[r])) :
         /\ groups' = out.groups
         /\ nextId' = nextId + out.made
         /\ AfterMutate(r, GroupCreate(cr[r], out.resp), "Create",
                        {Call("CreateGroup", "", out.resp.status)})
    /\ UNCHANGED <<clients, users, member, env>>

GroupUpdateStep(r) ==
    /\ Pending(r, "group", "Update")
    /\ IF GroupUpdateHasID(cr[r])
       THEN \E out \in HttpUpdateGroup(cr[r].at.ID, GroupRequest(cr[r])) :
              /\ groups' = out.groups
              /\ AfterMutate(r, GroupUpdate(cr[r], out.resp), "Update",
                             {Call("UpdateGroup", cr[r].at.ID, out.resp.status)})
       ELSE /\ groups' = groups
            /\ AfterMutate(r, Result(cr[r], FALSE, FALSE, "group ID not found in status"),
                           "Update", {})
    /\ UNCHANGED <<clients, users, member, nextId, env>>

GroupDeleteStep(r) ==
    /\ Pending(r, "group", "Delete")
    /\ IF GroupDeleteCalls(cr[r])
       THEN \E out \in HttpDeleteGroup(cr[r].at.ID) :
              /\ groups' = out.groups
              /\ member' = out.member
              /\ AfterMutate(r, GroupDelete(cr[r], out.resp), "Delete",
                             {Call("DeleteGroup", cr[r].at.ID, out.resp.status)})
       ELSE /\ groups' = groups
            /\ member' = member
            /\ AfterMutate(r, Result(cr[r], FALSE, FALSE, ""), "Delete", {})
    /\ UNCHANGED <<clients, users, nextId, env>>

----------------------------------------------------------------------------
(* OIDC client controller steps *)

OIDCClientObserveStep(r) ==
    /\ CycleStart(r, "client")
    /\ \E resp \in HttpListOIDCClients :
         LET res == OIDCClientObserve(cr[r], resp)
             key == OIDCClientLookupKey(cr[r])
             found == \E c \in clients : c.ClientName = key
         IN  AfterObserve(r, res, key, found, {Call("ListOIDCClients", "", resp.status)}, <<"", "">>)
    /\ UNCHANGED <<groups, clients, users, member, nextId, env>>

\* The logo upload of a Create or Update on client id, when there is one.
LogoUpload(does, cs, id) ==
    IF does THEN {[did |-> TRUE, ok |-> up.ok, clients |-> up.clients] :
                    up \in HttpUploadLogo(cs, id)}
    ELSE {[did |-> FALSE, ok |-> TRUE, clients |-> cs]}

UploadCalls(up, id) ==
    IF up.did THEN {Call("UploadOIDCClientLogo", id, IF up.ok THEN StatusOK ELSE StatusBadRequest)}
    ELSE {}

OIDCClientCreateStep(r) ==
    /\ Pending(r, "client", "Create")
    /\ \E out \in HttpCreateOIDCClient(OIDCClientRequest(cr[r])) :
         LET got == CreateOIDCClient(out.resp)
         IN  \E up \in LogoUpload(OIDCClientUploadsLogo(cr[r], got.err), out.clients, got.obj.ID) :
               /\ clients' = up.clients
               /\ nextId' = nextId + out.made
               /\ AfterMutateReturning(r, OIDCClientCreate(cr[r], out.resp, up.ok), "Create",
                                       {Call("CreateOIDCClient", "", out.resp.status)}
                                           \cup UploadCalls(up, got.obj.ID),
                                       ClientSecretOf(OIDCClientConnectionDetails(out.resp)))
    /\ UNCHANGED <<groups, users, member, env>>

OIDCClientUpdateStep(r) ==
    /\ Pending(r, "client", "Update")
    /\ IF OIDCClientUpdateHasID(cr[r])
       THEN \E out \in HttpUpdateOIDCClient(cr[r].at.ID, OIDCClientRequest(cr[r])) :
              LET got == UpdateOIDCClient(out.resp)
              IN  \E up \in LogoUpload(OIDCClientUploadsLogo(cr[r], got.err),
                                        out.clients, cr[r].at.ID) :
                    /\ clients' = up.clients
                    /\ AfterMutate(r, OIDCClientUpdate(cr[r], out.resp, up.ok), "Update",
                                   {Call("UpdateOIDCClient", cr[r].at.ID, out.resp.status)}
                                       \cup UploadCalls(up, cr[r].at.ID))
       ELSE /\ clients' = clients
            /\ AfterMutate(r, Result(cr[r], FALSE, FALSE, "OIDC client ID not found in status"),
                           "Update", {})
    /\ UNCHANGED <<groups, users, member, nextId, env>>

OIDCClientDeleteStep(r) ==
    /\ Pending(r, "client", "Delete")
    /\ IF OIDCClientDeleteCalls(cr[r])
       THEN \E out \in HttpDeleteOIDCClient(cr[r].at.ID) :
              /\ clients' = out.clients
              /\ member' = out.member
              /\ AfterMutate(r, OIDCClientDelete(cr[r], out.resp), "Delete",
                             {Call("DeleteOIDCClient", cr[r].at.ID, out.resp.status)})
       ELSE /\ clients' = clients
            /\ member' = member
            /\ AfterMutate(r, Result(cr[r], FALSE, FALSE, ""), "Delete", {})
    /\ UNCHANGED <<groups, users, nextId, env>>

----------------------------------------------------------------------------
(* Admin user controller steps *)

AdminUserObserveStep(r) ==
    /\ CycleStart(r, "admin")
    /\ \E resp \in HttpListUsers :
         LET res == AdminUserObserve(cr[r], resp)
             key == AdminUserLookupKey(cr[r])
             found == \E u \in users : u.Username = key
         IN  AfterObserve(r, res, key, found, {Call("ListUsers", "", resp.status)}, <<"", "">>)
    /\ UNCHANGED <<groups, clients, users, member, nextId, env>>

AdminUserCreateStep(r) ==
    /\ Pending(r, "admin", "Create")
    /\ \E out \in HttpCreateUser(AdminUserCreateRequest(cr[r])) :
         /\ users' = out.users
         /\ nextId' = nextId + out.made
         /\ AfterMutate(r, AdminUserCreate(cr[r], out.resp), "Create",
                        {Call("CreateUser", "", out.resp.status)})
    /\ UNCHANGED <<groups, clients, member, env>>

AdminUserUpdateStep(r) ==
    /\ Pending(r, "admin", "Update")
    /\ IF AdminUserUpdateHasID(cr[r])
       THEN \E out \in HttpUpdateUser(cr[r].at.ID, AdminUserUpdateRequest(cr[r])) :
              /\ users' = out.users
              /\ AfterMutate(r, AdminUserUpdate(cr[r], out.resp), "Update",
                             {Call("UpdateUser", cr[r].at.ID, out.resp.status)})
       ELSE /\ users' = users
            /\ AfterMutate(r, Result(cr[r], FALSE, FALSE, "admin user ID not found in status"),
                           "Update", {})
    /\ UNCHANGED <<groups, clients, member, nextId, env>>

AdminUserDeleteStep(r) ==
    /\ Pending(r, "admin", "Delete")
    /\ IF AdminUserDeleteCalls(cr[r])
       THEN \E out \in HttpDeleteUser(cr[r].at.ID) :
              /\ users' = out.users
              /\ AfterMutate(r, AdminUserDelete(cr[r], out.resp), "Delete",
                             {Call("DeleteUser", cr[r].at.ID, out.resp.status)})
       ELSE /\ users' = users
            /\ AfterMutate(r, Result(cr[r], FALSE, FALSE, ""), "Delete", {})
    /\ UNCHANGED <<groups, clients, member, nextId, env>>

----------------------------------------------------------------------------
(* OIDC client group binding controller steps *)

\* Observe, first half: resolve both references, then the membership check.
BindingObserveStep(r) ==
    /\ CycleStart(r, "binding")
    /\ LET rerr == ResolveError(cr[r], cr)
           clientID == resolveClientID(cr[r], cr).id
           groupID == resolveGroupID(cr[r], cr).id
           ids == <<clientID, groupID>>
           key == clientID \o ":" \o groupID
       IN  IF rerr # ""
           THEN AfterObserve(r, Result(cr[r], FALSE, FALSE, rerr), "", FALSE, {}, <<"", "">>)
           ELSE \E cresp \in HttpGetOIDCClient(clientID), gresp \in HttpGetGroup(groupID) :
                  LET isIn == IsClientInGroup(cresp, gresp)
                      res == BindingObserveCheck(cr[r], isIn)
                      calls == {Call("GetOIDCClient", clientID, cresp.status)} \cup
                               (IF isIn.calls = 2
                                THEN {Call("GetGroup", groupID, gresp.status)} ELSE {})
                  IN  IF res.err = "" /\ res.exists
                      THEN /\ cr' = cr
                           /\ cyc' = [cyc EXCEPT ![r] =
                                  [CycleZero EXCEPT !.phase = "fetching", !.outcome = "Pending",
                                                    !.key = key, !.found = ids \in member,
                                                    !.deleted = cr[r].deleted,
                                                    !.calls = calls, !.ids = ids]]
                      ELSE AfterObserve(r, res, key, ids \in member, calls, ids)
    /\ UNCHANGED <<groups, clients, users, member, nextId, env>>

\* Observe, second half: the fetches for status.
BindingFetchStep(r) ==
    /\ KindOf(r) = "binding"
    /\ cyc[r].phase = "fetching"
    /\ LET clientID == cyc[r].ids[1]
           groupID == cyc[r].ids[2]
       IN  \E cresp \in HttpGetOIDCClient(clientID), gresp \in HttpGetGroup(groupID) :
             AfterObserve(r, BindingObserveFetch(cr[r], clientID, groupID, cresp, gresp),
                          cyc[r].key, cyc[r].found,
                          cyc[r].calls \cup {Call("GetOIDCClient", clientID, cresp.status),
                                             Call("GetGroup", groupID, gresp.status)},
                          cyc[r].ids)
    /\ UNCHANGED <<groups, clients, users, member, nextId, env>>

\* A Create that moves the binding: it also dissociates the pair Status holds.
BindingCreateStepMoving(r) ==
    /\ Pending(r, "binding", "Create")
    /\ LET rerr == ResolveError(cr[r], cr)
           clientID == resolveClientID(cr[r], cr).id
           groupID == resolveGroupID(cr[r], cr).id
       IN  IF rerr # ""
           THEN /\ member' = member
                /\ AfterMutate(r, Result(cr[r], FALSE, FALSE, rerr), "Create", {})
           ELSE \E out \in HttpAddClientToGroup(clientID, groupID) :
                  /\ member' = out.member \ ({<<cr[r].at.Client.ID, cr[r].at.Group.ID>>}
                                                \ {<<clientID, groupID>>})
                  /\ AfterMutate(r, BindingCreate(cr[r], clientID, groupID, out.resp), "Create",
                                 {Call("AddClientToGroup", clientID \o ":" \o groupID,
                                       out.resp.status)})
    /\ UNCHANGED <<groups, clients, users, nextId, env>>

BindingCreateStep(r) ==
    /\ Pending(r, "binding", "Create")
    /\ LET rerr == ResolveError(cr[r], cr)
           clientID == resolveClientID(cr[r], cr).id
           groupID == resolveGroupID(cr[r], cr).id
       IN  IF rerr # ""
           THEN /\ member' = member
                /\ AfterMutate(r, Result(cr[r], FALSE, FALSE, rerr), "Create", {})
           ELSE \E out \in HttpAddClientToGroup(clientID, groupID) :
                  /\ member' = out.member
                  /\ AfterMutate(r, BindingCreate(cr[r], clientID, groupID, out.resp), "Create",
                                 {Call("AddClientToGroup", clientID \o ":" \o groupID,
                                       out.resp.status)})
    /\ UNCHANGED <<groups, clients, users, nextId, env>>

\* The cycle has no Update step: Observe never reports a present binding as
\* out of date, so the cycle never calls BindingUpdate.  BindingUpdateStep is
\* Update called on its own, whatever Observe said; it is a step of
\* AssociationSpec only.
BindingUpdateStep(r) ==
    /\ CycleStart(r, "binding")
    /\ LET res == BindingUpdate(cr[r])
       IN  /\ cr' = [cr EXCEPT ![r] = res.cr]
           /\ cyc' = [cyc EXCEPT ![r] =
                  [CycleZero EXCEPT !.outcome = IF res.err # "" THEN HealthOf(res.err)
                                                ELSE "Updated",
                                    !.err = res.err, !.mut = "Update",
                                    !.deleted = cr[r].deleted]]
    /\ UNCHANGED <<groups, clients, users, member, nextId, env>>

BindingDeleteStep(r) ==
    /\ Pending(r, "binding", "Delete")
    /\ LET rerr == ResolveError(cr[r], cr)
           clientID == resolveClientID(cr[r], cr).id
           groupID == resolveGroupID(cr[r], cr).id
       IN  IF rerr # ""
           THEN /\ member' = member
                /\ AfterMutate(r, Result(cr[r], FALSE, FALSE, rerr), "Delete", {})
           ELSE \E out \in HttpRemoveClientFromGroup(clientID, groupID) :
                  /\ member' = out.member
                  /\ AfterMutate(r, BindingDelete(cr[r], out.resp), "Delete",
                                 {Call("RemoveClientFromGroup", clientID \o ":" \o groupID,
                                       out.resp.status)})
    /\ UNCHANGED <<groups, clients, users, nextId, env>>

----------------------------------------------------------------------------
(* The user and other actors *)

\* The Specs a user may declare for a group.
GroupSpecs ==
    {[Name |-> n, FriendlyName |-> f, CustomClaims |-> EmptyMap] :
        n \in Names, f \in {"Eng", "Team"}}

\* The Specs a user may declare for an OIDC client.
OIDCClientSpecs ==
    {[Name |-> n, CallbackURLs |-> u, LogoutCallbackURLs |-> <<>>, LaunchURL |-> "",
      IsPublic |-> FALSE, PkceEnabled |-> FALSE, LogoURL |-> l] :
        n \in Names, u \in {<<"a", "b">>, <<"b", "a">>, <<"a", "a">>},
        l \in {"", "http://x/logo.png"}}

\* The Specs a user may declare for an admin user.
AdminUserSpecs ==
    {[Username |-> n, Email |-> e, FirstName |-> "E", LastName |-> "", Locale |-> "",
      Disabled |-> FALSE, CustomClaims |-> EmptyMap] :
        n \in Names, e \in {"e@x", "f@x"}}

\* A binding Spec: per reference a literal, a pointer (the empty name is nil)
\* and a selector (FALSE is nil).
BindingSpecOf(clientID, clientRef, clientSel, groupID, groupRef, groupSel) ==
    [ClientID |-> clientID, ClientIDRef |-> clientRef, ClientIDSelector |-> clientSel,
     GroupID |-> groupID, GroupIDRef |-> groupRef, GroupIDSelector |-> groupSel]

BindingSpecs ==
    {BindingSpecOf("", "C", FALSE, "", "G", FALSE),
     BindingSpecOf("c0", "", FALSE, "g0", "", FALSE),
     BindingSpecOf("c0", "C", FALSE, "", "G", FALSE),
     BindingSpecOf("", "C", FALSE, "", "", TRUE),
     BindingSpecOf("", "", TRUE, "", "G", FALSE)}

SpecsOf(kind) ==
    CASE kind = "group" -> GroupSpecs
      [] kind = "client" -> OIDCClientSpecs
      [] kind = "admin" -> AdminUserSpecs
      [] kind = "binding" -> BindingSpecs

\* The user changes the Spec of a declared resource between two cycles.
EditSpec(r) ==
    /\ cr[r].exists /\ ~cr[r].deleted
    /\ cyc[r].phase = "done"
    /\ env.edits < MaxEdits
    /\ \E s \in SpecsOf(KindOf(r)) \ {cr[r].spec} :
         cr' = [cr EXCEPT ![r].spec = s]
    /\ env' = [env EXCEPT !.edits = @ + 1]
    /\ UNCHANGED <<groups, clients, users, member, nextId, cyc>>

\* The user marks a declared resource for deletion.
MarkDeleted(r) ==
    /\ cr[r].exists /\ ~cr[r].deleted
    /\ cyc[r].phase = "done"
    /\ cr' = [cr EXCEPT ![r].deleted = TRUE]
    /\ UNCHANGED <<groups, clients, users, member, nextId, cyc, env>>

\* Another actor removes a remote object (and with it its associations).
ExternalDelete ==
    /\ env.external < MaxExternal
    /\ \E id \in {g.ID : g \in groups} \cup {c.ID : c \in clients} \cup {u.ID : u \in users} :
         /\ groups' = {g \in groups : g.ID # id}
         /\ clients' = {c \in clients : c.ID # id}
         /\ users' = {u \in users : u.ID # id}
         /\ member' = {m \in member : m[1] # id /\ m[2] # id}
    /\ env' = [env EXCEPT !.external = @ + 1]
    /\ UNCHANGED <<cr, nextId, cyc>>

----------------------------------------------------------------------------
(* Initial states *)

NewResource(declared, spec, at) ==
    [exists |-> declared, deleted |-> FALSE, spec |-> spec, at |-> at, ext |-> "", cond |-> ""]

GroupSpec0 == [Name |-> "eng", FriendlyName |-> "Eng", CustomClaims |-> EmptyMap]

OIDCClientSpec0 ==
    [Name |-> "eng", CallbackURLs |-> <<"a", "b">>, LogoutCallbackURLs |-> <<>>,
     LaunchURL |-> "", IsPublic |-> FALSE, PkceEnabled |-> FALSE, LogoURL |-> ""]

AdminUserSpec0 ==
    [Username |-> "eng", Email |-> "e@x", FirstName |-> "E", LastName |-> "", Locale |-> "",
     Disabled |-> FALSE, CustomClaims |-> EmptyMap]

\* Remote objects that may exist before the resources are declared.
Group0(name, friendly) ==
    [ID |-> "g0", GroupName |-> name, FriendlyName |-> friendly, CustomClaims |-> EmptyMap]

Client0(name, uris) ==
    [ID |-> "c0", ClientName |-> name, RedirectURIs |-> uris, PostLogoutURIs |-> <<>>,
     LaunchURL |-> "", IsPublic |-> FALSE, RequirePKCE |-> FALSE, HasLogo |-> FALSE]

User0(name, isAdmin) ==
    [ID |-> "u0", Username |-> name, Email |-> "e@x", FirstName |-> "E", LastName |-> "",
     Locale |-> "", Disabled |-> FALSE, IsAdmin |-> isAdmin, UserGroups |-> {},
     CustomClaims |-> EmptyMap]

\* The declared resources of a scenario; the binding's Spec is b.
Declared(sc, b) ==
    [r \in Resources |->
        CASE r = "G" -> NewResource(sc \in {"group", "binding", "twins"}, GroupSpec0,
                                    GroupObservationZero)
          [] r = "H" -> NewResource(sc = "twins", GroupSpec0, GroupObservationZero)
          [] r = "C" -> NewResource(sc \in {"client", "binding", "secrets"}, OIDCClientSpec0,
                                    OIDCClientObservationZero)
          [] r = "A" -> NewResource(sc = "admin", AdminUserSpec0, AdminUserObservationZero)
          [] r = "B" -> NewResource(sc = "binding", b, BindingObservationZero)]

InitRemote(sc) ==
    CASE sc = "group" ->
           /\ groups \in {{}, {Group0("eng", "Eng")}, {Group0("eng", "Old")}}
           /\ clients = {} /\ users = {}
      [] sc = "client" ->
           /\ clients \in {{}, {Client0("eng", <<"b", "a">>)}, {Client0("eng", <<"a">>)}}
           /\ groups = {} /\ users = {}
      [] sc = "admin" ->
           /\ users \in {{}, {User0("eng", TRUE)}, {User0("eng", FALSE)}}
           /\ groups = {} /\ clients = {}
      [] sc = "binding" ->
           /\ groups = {Group0("base", "Base")}
           /\ clients = {Client0("lit", <<"a">>)}
           /\ users = {}
      [] sc = "secrets" ->
           /\ clients \in {{}, {Client0("eng", <<"a">>)}}
           /\ groups = {} /\ users = {}
      [] sc = "twins" ->
           /\ groups \in {{}, {Group0("eng", "Eng")}}
           /\ clients = {} /\ users = {}

InitWith(faulty) ==
    /\ \E sc \in {"group", "client", "admin", "binding"} :
         /\ env = [scenario |-> sc, faulty |-> faulty /\ sc # "binding",
                   edits |-> IF sc = "binding" THEN MaxEdits ELSE 0, external |-> 0]
         /\ \E b \in (IF sc = "binding" THEN BindingSpecs
                        ELSE {BindingSpecOf("", "C", FALSE, "", "G", FALSE)}) :
                cr = Declared(sc, b)
         /\ InitRemote(sc)
    /\ member = {}
    /\ nextId = 0
    /\ cyc = [r \in Resources |-> CycleZero]

Init == InitWith(TRUE)

Next ==
    \/ \E r \in Resources : GroupObserveStep(r)
    \/ \E r \in Resources : GroupCreateStep(r)
    \/ \E r \in Resources : GroupUpdateStep(r)
    \/ \E r \in Resources : GroupDeleteStep(r)
    \/ \E r \in Resources : OIDCClientObserveStep(r)
    \/ \E r \in Resources : OIDCClientCreateStep(r)
    \/ \E r \in Resources : OIDCClientUpdateStep(r)
    \/ \E r \in Resources : OIDCClientDeleteStep(r)
    \/ \E r \in Resources : AdminUserObserveStep(r)
    \/ \E r \in Resources : AdminUserCreateStep(r)
    \/ \E r \in Resources : AdminUserUpdateStep(r)
    \/ \E r \in Resources : AdminUserDeleteStep(r)
    \/ \E r \in Resources : BindingObserveStep(r)
    \/ \E r \in Resources : BindingFetchStep(r)
    \/ \E r \in Resources : BindingCreateStep(r)
    \/ \E r \in Resources : BindingDeleteStep(r)
    \/ \E r \in Resources : EditSpec(r)
    \/ \E r \in Resources : MarkDeleted(r)
    \/ ExternalDelete

Spec == Init /\ [][Next]_vars

\* The cycle steps of one declared resource.  The controller polls every
\* declared resource again and again, so a step of r that stays possible is
\* eventually taken.
Cycle(r) ==
    \/ GroupObserveStep(r) \/ GroupCreateStep(r) \/ GroupUpdateStep(r) \/ GroupDeleteStep(r)
    \/ OIDCClientObserveStep(r) \/ OIDCClientCreateStep(r)
    \/ OIDCClientUpdateStep(r) \/ OIDCClientDeleteStep(r)
    \/ AdminUserObserveStep(r) \/ AdminUserCreateStep(r)
    \/ AdminUserUpdateStep(r) \/ AdminUserDeleteStep(r)
    \/ BindingObserveStep(r) \/ BindingFetchStep(r)
    \/ BindingCreateStep(r) \/ BindingDeleteStep(r)

Fairness == \A r \in Resources : WF_vars(Cycle(r))

\* The same system with a remote that answers every call, polled fairly.
LiveInit == InitWith(FALSE)

LiveSpec == LiveInit /\ [][Next]_vars /\ Fairness

\* A binding declared together with its group and its OIDC client, none of
\* them existing remotely, all three left alone: nothing is edited, marked for
\* deletion or removed out of band, and the remote answers every call.
\* The steps the three resources can take while they are left alone.
ConvergeNext ==
    \/ \E r \in Resources : GroupObserveStep(r)
    \/ \E r \in Resources : GroupCreateStep(r)
    \/ \E r \in Resources : OIDCClientObserveStep(r)
    \/ \E r \in Resources : OIDCClientCreateStep(r)
    \/ \E r \in Resources : BindingObserveStep(r)
    \/ \E r \in Resources : BindingFetchStep(r)
    \/ \E r \in Resources : BindingCreateStep(r)

ConvergeInit ==
    /\ LiveInit
    /\ env.scenario = "binding"

ConvergeSpec == ConvergeInit /\ [][ConvergeNext]_vars /\ Fairness

\* Inputs of the drift detectors: string lists of up to MaxLen items and
\* string maps over two keys, empty-string values included.
StringSlices == UNION {[1..n -> {"a", "b"}] : n \in 0..MaxLen}

StringMaps == UNION {[D -> {"", "v"}] : D \in SUBSET {"k", "j"}}

\* A resource of one named kind, declared with any Spec of its kind and
\* already carrying the stable name "eng" or none, next to a remote object
\* "eng" with any list and map fields.  The remote answers every call and
\* nothing is edited, so every Observe that finds the object applies the
\* kind's drift detector to one pair of these inputs.
CompareInit ==
    /\ \E sc \in {"group", "client", "admin"}, e \in {"", "eng"} :
         /\ env = [scenario |-> sc, faulty |-> FALSE, edits |-> MaxEdits, external |-> 0]
         /\ CASE sc = "group" ->
                   /\ \E n \in Names, f \in {"Eng", "Team"}, m \in StringMaps :
                        cr = [Declared(sc, BindingSpecOf("", "C", FALSE, "", "G", FALSE))
                                EXCEPT !["G"].ext = e,
                                       !["G"].spec = [Name |-> n, FriendlyName |-> f,
                                                      CustomClaims |-> m]]
                   /\ \E m \in StringMaps :
                        groups = {[Group0("eng", "Eng") EXCEPT !.CustomClaims = m]}
                   /\ clients = {} /\ users = {}
              [] sc = "client" ->
                   /\ \E n \in Names, l \in {"", "http://x"}, p \in BOOLEAN, k \in BOOLEAN,
                         u \in StringSlices, o \in {<<>>, <<"a">>} :
                        cr = [Declared(sc, BindingSpecOf("", "C", FALSE, "", "G", FALSE))
                                EXCEPT !["C"].ext = e,
                                       !["C"].spec = [Name |-> n, CallbackURLs |-> u,
                                                      LogoutCallbackURLs |-> o,
                                                      LaunchURL |-> l, IsPublic |-> p,
                                                      PkceEnabled |-> k, LogoURL |-> ""]]
                   /\ \E u \in StringSlices, o \in {<<>>, <<"a">>} :
                        clients = {[Client0("eng", u) EXCEPT !.PostLogoutURIs = o]}
                   /\ groups = {} /\ users = {}
              [] sc = "admin" ->
                   /\ \E n \in Names, m \in StringMaps,
                         f \in [{"Email", "FirstName", "LastName", "Locale"} -> BOOLEAN],
                         d \in BOOLEAN :
                        cr = [Declared(sc, BindingSpecOf("", "C", FALSE, "", "G", FALSE))
                                EXCEPT !["A"].ext = e,
                                       !["A"].spec =
                                          [Username |-> n,
                                           Email |-> IF f["Email"] THEN "f@x" ELSE "e@x",
                                           FirstName |-> IF f["FirstName"] THEN "F" ELSE "E",
                                           LastName |-> IF f["LastName"] THEN "L" ELSE "",
                                           Locale |-> IF f["Locale"] THEN "fr" ELSE "",
                                           Disabled |-> d, CustomClaims |-> m]]
                   /\ \E m \in StringMaps :
                        users = {[User0("eng", TRUE) EXCEPT !.CustomClaims = m]}
                   /\ groups = {} /\ clients = {}
    /\ member = {}
    /\ nextId = 0
    /\ cyc = [r \in Resources |-> CycleZero]

\* The cycles of the named kinds: Observe, then Create or Update.
CompareNext ==
    \/ \E r \in Resources : GroupObserveStep(r)
    \/ \E r \in Resources : GroupCreateStep(r)
    \/ \E r \in Resources : GroupUpdateStep(r)
    \/ \E r \in Resources : OIDCClientObserveStep(r)
    \/ \E r \in Resources : OIDCClientCreateStep(r)
    \/ \E r \in Resources : OIDCClientUpdateStep(r)
    \/ \E r \in Resources : AdminUserObserveStep(r)
    \/ \E r \in Resources : AdminUserCreateStep(r)
    \/ \E r \in Resources : AdminUserUpdateStep(r)

CompareSpec == CompareInit /\ [][CompareNext]_vars

\* A binding next to its group and client, with Update of the binding called
\* at any time between its cycles.
AssociationNext ==
    \/ \E r \in Resources : GroupObserveStep(r)
    \/ \E r \in Resources : GroupCreateStep(r)
    \/ \E r \in Resources : GroupDeleteStep(r)
    \/ \E r \in Resources : OIDCClientObserveStep(r)
    \/ \E r \in Resources : OIDCClientCreateStep(r)
    \/ \E r \in Resources : OIDCClientDeleteStep(r)
    \/ \E r \in Resources : BindingObserveStep(r)
    \/ \E r \in Resources : BindingFetchStep(r)
    \/ \E r \in Resources : BindingCreateStep(r)
    \/ \E r \in Resources : BindingUpdateStep(r)
    \/ \E r \in Resources : BindingDeleteStep(r)
    \/ \E r \in Resources : MarkDeleted(r)
    \/ ExternalDelete

AssociationInit ==
    /\ Init
    /\ env.scenario = "binding"

AssociationSpec == AssociationInit /\ [][AssociationNext]_vars

\* The system, started as usual or with Update or Delete handed a resource of
\* a named kind that no Observe has written to: Status, stable name and
\* condition are empty.
HandlerInit ==
  \/ Init
  \/
    /\ \E sc \in {"group", "client", "admin"}, op \in {"Update", "Delete"}, faulty \in BOOLEAN :
         LET r == CASE sc = "group" -> "G" [] sc = "client" -> "C" [] sc = "admin" -> "A"
         IN  /\ env = [scenario |-> sc, faulty |-> faulty, edits |-> MaxEdits,
                       external |-> MaxExternal]
             /\ cr = [Declared(sc, BindingSpecOf("", "C", FALSE, "", "G", FALSE))
                        EXCEPT ![r].deleted = (op = "Delete")]
             /\ InitRemote(sc)
             /\ cyc = [x \in Resources |->
                         IF x = r
                         THEN [CycleZero EXCEPT !.phase = "observed", !.pending = op,
                                                !.outcome = "Pending",
                                                !.deleted = (op = "Delete")]
                         ELSE CycleZero]
    /\ member = {}
    /\ nextId = 0

HandlerSpec == HandlerInit /\ [][Next]_vars

\* End of a cycle that is cut off after its Create call was answered: the
\* remote has changed, nothing the handler wrote reaches the stored resource.
CutOff(r, calls) ==
    /\ cr' = cr
    /\ cyc' = [cyc EXCEPT ![r].phase = "done", ![r].pending = "None",
                          ![r].mut = "Create", ![r].outcome = "Interrupted",
                          ![r].calls = @ \cup calls]

GroupCreateInterrupted(r) ==
    /\ Pending(r, "group", "Create")
    /\ \E out \in HttpCreateGroup(GroupRequest(cr[r])) :
         /\ out.resp.status = StatusOK
         /\ groups' = out.groups
         /\ nextId' = nextId + out.made
         /\ CutOff(r, {Call("CreateGroup", "", out.resp.status)})
    /\ UNCHANGED <<clients, users, member, env>>

OIDCClientCreateInterrupted(r) ==
    /\ Pending(r, "client", "Create")
    /\ \E out \in HttpCreateOIDCClient(OIDCClientRequest(cr[r])) :
         /\ out.resp.status = StatusOK
         /\ clients' = out.clients
         /\ nextId' = nextId + out.made
         /\ CutOff(r, {Call("CreateOIDCClient", "", out.resp.status)})
    /\ UNCHANGED <<groups, users, member, env>>

AdminUserCreateInterrupted(r) ==
    /\ Pending(r, "admin", "Create")
    /\ \E out \in HttpCreateUser(AdminUserCreateRequest(cr[r])) :
         /\ out.resp.status = StatusOK
         /\ users' = out.users
         /\ nextId' = nextId + out.made
         /\ CutOff(r, {Call("CreateUser", "", out.resp.status)})
    /\ UNCHANGED <<groups, clients, member, env>>

\* The named kinds with a remote that answers every call and cycles that can
\* be cut off after Create.
InterruptNext ==
    \/ \E r \in Resources : GroupObserveStep(r)
    \/ \E r \in Resources : GroupCreateStep(r)
    \/ \E r \in Resources : GroupCreateInterrupted(r)
    \/ \E r \in Resources : GroupUpdateStep(r)
    \/ \E r \in Resources : GroupDeleteStep(r)
    \/ \E r \in Resources : OIDCClientObserveStep(r)
    \/ \E r \in Resources : OIDCClientCreateStep(r)
    \/ \E r \in Resources : OIDCClientCreateInterrupted(r)
    \/ \E r \in Resources : OIDCClientUpdateStep(r)
    \/ \E r \in Resources : OIDCClientDeleteStep(r)
    \/ \E r \in Resources : AdminUserObserveStep(r)
    \/ \E r \in Resources : AdminUserCreateStep(r)
    \/ \E r \in Resources : AdminUserCreateInterrupted(r)
    \/ \E r \in Resources : AdminUserUpdateStep(r)
    \/ \E r \in Resources : AdminUserDeleteStep(r)
    \/ \E r \in Resources : EditSpec(r)
    \/ \E r \in Resources : MarkDeleted(r)
    \/ ExternalDelete

InterruptInit == LiveInit /\ env.scenario # "binding"

InterruptSpec == InterruptInit /\ [][InterruptNext]_vars

\* Two groups declared side by side, the second under the same name as the
\* first or under another, their cycles interleaved.
OwnershipInit ==
    /\ env = [scenario |-> "twins", faulty |-> FALSE, edits |-> MaxEdits,
              external |-> MaxExternal]
    /\ \E s \in GroupSpecs :
         cr = [Declared("twins", BindingSpecOf("", "C", FALSE, "", "G", FALSE))
                 EXCEPT !["H"].spec = s]
    /\ InitRemote("twins")
    /\ member = {}
    /\ nextId = 0
    /\ cyc = [r \in Resources |-> CycleZero]

OwnershipNext ==
    \/ \E r \in Resources : GroupObserveStep(r)
    \/ \E r \in Resources : GroupCreateStep(r)
    \/ \E r \in Resources : GroupUpdateStep(r)
    \/ \E r \in Resources : GroupDeleteStep(r)
    \/ \E r \in Resources : MarkDeleted(r)

OwnershipSpec == OwnershipInit /\ [][OwnershipNext]_vars

\* A binding next to its group and client, its references changed by the
\* user between two cycles; the remote client may be in the remote group
\* from the start.
RebindInit ==
    /\ env = [scenario |-> "binding", faulty |-> FALSE, edits |-> 0, external |-> MaxExternal]
    /\ \E b \in BindingSpecs : cr = Declared("binding", b)
    /\ InitRemote("binding")
    /\ member \in {{}, {<<"c0", "g0">>}}
    /\ nextId = 0
    /\ cyc = [r \in Resources |-> CycleZero]

RebindNext ==
    \/ \E r \in Resources : GroupObserveStep(r)
    \/ \E r \in Resources : GroupCreateStep(r)
    \/ \E r \in Resources : OIDCClientObserveStep(r)
    \/ \E r \in Resources : OIDCClientCreateStep(r)
    \/ \E r \in Resources : BindingObserveStep(r)
    \/ \E r \in Resources : BindingFetchStep(r)
    \/ \E r \in Resources : BindingCreateStep(r)
    \/ \E r \in Resources : BindingDeleteStep(r)
    \/ EditSpec("B")
    \/ MarkDeleted("B")

RebindSpec == RebindInit /\ [][RebindNext]_vars

\* An OIDC client, public or confidential, against a remote that may answer
\* a creation with or without a secret.
SecretInit ==
    /\ \E faulty \in BOOLEAN :
         env = [scenario |-> "secrets", faulty |-> faulty, edits |-> MaxEdits,
                external |-> MaxExternal]
    /\ \E n \in Names, p \in BOOLEAN, u \in {<<"a">>, <<"a", "b">>},
          l \in {"", "http://x/logo.png"} :
         cr = [Declared("secrets", BindingSpecOf("", "C", FALSE, "", "G", FALSE))
                 EXCEPT !["C"].spec = [OIDCClientSpec0 EXCEPT !.Name = n, !.IsPublic = p,
                                                             !.CallbackURLs = u,
                                                             !.LogoURL = l]]
    /\ InitRemote("secrets")
    /\ member = {}
    /\ nextId = 0
    /\ cyc = [r \in Resources |-> CycleZero]

SecretNext ==
    \/ \E r \in Resources : OIDCClientObserveStep(r)
    \/ \E r \in Resources : OIDCClientCreateStep(r)
    \/ \E r \in Resources : OIDCClientUpdateStep(r)
    \/ \E r \in Resources : OIDCClientDeleteStep(r)
    \/ \E r \in Resources : MarkDeleted(r)

SecretSpec == SecretInit /\ [][SecretNext]_vars

\* The logo URLs a user may declare, as sequences of characters: a stem and
\* an ending.
LogoURLs ==
    LET endings ==
          {<<>>, <<".", "p", "n", "g">>, <<".", "P", "N", "G">>, <<".", "j", "p", "e", "g">>,
           <<".", "J", "p", "G">>, <<".", "g", "i", "f">>, <<".", "s", "v", "g">>,
           <<".", "b", "m", "p">>, <<"p", "n", "g">>, <<".", "p", "n">>,
           <<".", "p", "n", "g", "?">>, <<".", "g", "i", "f", ".", "x">>}
    IN  {<<>>} \cup {<<"x">> \o e : e \in endings}

\* The answers to the GET of the logo: not answered, not found, or a file of
\* a size around the limit.
LogoAnswers ==
    {[status |-> 0, size |-> 0], [status |-> StatusNotFound, size |-> 0]}
        \cup {[status |-> StatusOK, size |-> n] :
                  n \in {0, MaxLogoBytes - 1, MaxLogoBytes, MaxLogoBytes + 1}}

\* UploadOIDCClientLogo called for the remote client c0 with a URL and an
\* answer to its download.
LogoInit ==
    /\ \E u \in LogoURLs, a \in LogoAnswers :
         env = [scenario |-> "logo", faulty |-> FALSE, edits |-> MaxEdits,
                external |-> MaxExternal, url |-> u, answer |-> a]
    /\ cr = Declared("logo", BindingSpecOf("", "C", FALSE, "", "G", FALSE))
    /\ groups = {} /\ users = {}
    /\ clients = {Client0("eng", <<"a">>)}
    /\ member = {}
    /\ nextId = 0
    /\ cyc = [r \in Resources |-> CycleZero]

\* The call of UploadOIDCClientLogo; the PUT, when it is made, is answered
\* OK and the client has a logo, or is refused.
UploadLogoStep ==
    /\ cyc["C"].mut = "None"
    /\ \E status \in {StatusOK, StatusBadRequest} :
         LET res == UploadOIDCClientLogo("c0", env.url, env.answer, Resp(status, NoClient))
             put == Call("UploadOIDCClientLogo", "c0", StatusOK)
         IN  /\ cyc' = [cyc EXCEPT !["C"].mut = "Upload", !["C"].err = res.err,
                                   !["C"].calls = res.calls]
             /\ clients' = IF put \in res.calls
                            THEN {[c EXCEPT !.HasLogo = TRUE] : c \in clients}
                            ELSE clients
    /\ UNCHANGED <<cr, groups, users, member, nextId, env>>

LogoSpec == LogoInit /\ [][UploadLogoStep]_vars

----------------------------------------------------------------------------
(* Vocabulary of the properties *)

\* The kinds discovered by name: group, OIDC client, admin user.
Named == {"G", "C", "A"}

\* The declared name of r: the field of Spec that discovery falls back on.
SpecNameOf(r) == IF KindOf(r) = "admin" THEN cr[r].spec.Username ELSE cr[r].spec.Name

CreateOps == {"CreateGroup", "CreateOIDCClient", "CreateUser", "AddClientToGroup"}
UpdateOps == {"UpdateGroup", "UpdateOIDCClient", "UpdateUser"}
DeleteOps == {"DeleteGroup", "DeleteOIDCClient", "DeleteUser", "RemoveClientFromGroup"}
UploadOps == {"UploadOIDCClientLogo"}
MutationOps == CreateOps \cup UpdateOps \cup DeleteOps \cup UploadOps

\* The calls of the membership query (IsClientInGroup), of the association
\* and of the dissociation.
MembershipOps == {"GetOIDCClient", "GetGroup", "AddClientToGroup", "RemoveClientFromGroup"}

\* The operations a cycle record c has called.
OpsOf(c) == {call.op : call \in c.calls}

\* Every call of the cycle record c was answered OK.
AllOK(c) == \A call \in c.calls : call.status = StatusOK

\* This step is the Observe step that starts a new cycle of r.
ObserveStepOf(r) == cyc[r].phase = "done" /\ cyc'[r] # cyc[r]

\* The identifiers of the remote objects of r's kind that carry the name.
RemoteNamed(r, name, gs, cs, us) ==
    CASE KindOf(r) = "group" -> {g.ID : g \in {x \in gs : x.GroupName = name}}
      [] KindOf(r) = "client" -> {c.ID : c \in {x \in cs : x.ClientName = name}}
      [] KindOf(r) = "admin" -> {u.ID : u \in {x \in us : x.Username = name}}
      [] OTHER -> {}

\* A reference of the binding c is a pointer to a declared resource whose
\* observed ID is empty.
PointsToUnobserved(c, all) ==
    \/ /\ c.spec.ClientID = "" /\ c.spec.ClientIDRef # ""
       /\ KubeGet(all, c.spec.ClientIDRef, "client")
       /\ all[c.spec.ClientIDRef].at.ID = ""
    \/ /\ c.spec.GroupID = "" /\ c.spec.GroupIDRef # ""
       /\ KubeGet(all, c.spec.GroupIDRef, "group")
       /\ all[c.spec.GroupIDRef].at.ID = ""

----------------------------------------------------------------------------
(* Properties *)

\* C1 (idempotent delete): for every kind, a Delete whose remote call is
\* answered not-found (the object or association is already absent) returns
\* success: the cycle that issued it ends without error.
C1_IdempotentDelete ==
    \A r \in Resources : \A call \in cyc[r].calls :
        (call.op \in DeleteOps /\ call.status = StatusNotFound)
            => (cyc[r].mut = "Delete" /\ cyc[r].err = "" /\ cyc[r].outcome = "Deleting")

\* A group Delete and a binding Delete were both answered not-found.
C1_Witness ==
    /\ Call("DeleteGroup", cr["G"].at.ID, StatusNotFound) \in cyc["G"].calls
    /\ \E call \in cyc["B"].calls :
          call.op = "RemoveClientFromGroup" /\ call.status = StatusNotFound
    /\ cyc["G"].err = "" /\ cyc["B"].err = ""

C3_InvariantEnforcement ==
    [][(/\ ObserveStepOf("A")
        /\ Call("ListUsers", "", StatusOK) \in cyc'["A"].calls
        /\ \E u \in users : u.Username = AdminUserLookupKey(cr["A"]) /\ ~u.IsAdmin)
          => /\ cyc'["A"].outcome = "InvariantViolated"
             /\ cyc'["A"].phase = "done" /\ cyc'["A"].pending = "None"
             /\ ~cyc'["A"].exists
             /\ OpsOf(cyc'["A"]) \cap MutationOps = {}
             /\ cr'["A"] = cr["A"]
             /\ users' = users]_vars

\* An admin user's cycle ended InvariantViolated on a remote non-admin user,
\* and the resource is not Available.
C3_Witness ==
    /\ cyc["A"].outcome = "InvariantViolated"
    /\ \E u \in users : u.Username = cyc["A"].key /\ ~u.IsAdmin
    /\ cr["A"].cond # Available
    /\ cyc["A"].mut = "None"

\* C4 (first-write identity stability): with a stable name recorded, a change
\* of Spec leaves the stable name as it is; an Observe run while the declared
\* name differs from the stable name looks the object up by the stable name,
\* leaves the stable name as it is, and reports the object it finds as not up
\* to date.
C4_FirstWriteIdentityStability ==
    [][\A r \in Named :
          /\ (cr[r].ext # "" /\ cr'[r].spec # cr[r].spec) => cr'[r].ext = cr[r].ext
          /\ (ObserveStepOf(r) /\ cr[r].ext # "" /\ SpecNameOf(r) # cr[r].ext)
                => /\ cyc'[r].key = cr[r].ext
                   /\ cr'[r].ext = cr[r].ext
                   /\ (cyc'[r].exists => ~cyc'[r].upToDate)]_vars

\* The group recorded as "eng" was renamed to "ops" in Spec; the Observe after
\* the edit looked up "eng", found it and reported drift.
C4_Witness ==
    /\ cr["G"].ext = "eng" /\ cr["G"].spec.Name = "ops"
    /\ cyc["G"].key = "eng" /\ cyc["G"].exists /\ ~cyc["G"].upToDate
    /\ cyc["G"].spec = cr["G"].spec

\* C5 as stated (stable name is write-once): once set, the stable name of a
\* resource never takes a different value.
C5_StableNameWriteOnce ==
    [][\A r \in Named : cr[r].ext # "" => cr'[r].ext = cr[r].ext]_vars

\* C5 (amended): a stable name that is set changes only in a Create step that
\* succeeds, which records the created object's name (the declared name);
\* Observe, Update, Delete and Spec edits leave it as it is, and every Observe
\* uses the recorded value as its lookup key.
C5_StableNameChangesOnlyByCreate ==
    [][\A r \in Named :
          /\ (cr[r].ext # "" /\ cr'[r].ext # cr[r].ext)
                => /\ cyc[r].pending = "Create"
                   /\ cyc'[r].mut = "Create" /\ cyc'[r].err = ""
                   /\ cr'[r].ext = SpecNameOf(r)
          /\ (ObserveStepOf(r) /\ cr[r].ext # "") => cyc'[r].key = cr[r].ext]_vars

\* The group was looked up as "eng", found absent, and the Create of this
\* cycle replaced the stable name by "ops".
C5_Witness ==
    /\ cyc["G"].key = "eng" /\ cyc["G"].mut = "Create" /\ cyc["G"].err = ""
    /\ cr["G"].ext = "ops"

SteadyCycle(c) ==
    (c.phase = "done" /\ c.exists /\ c.upToDate /\ ~c.deleted /\ c.err = "")
        => (c.mut = "None" /\ c.outcome = "Current" /\ OpsOf(c) \cap MutationOps = {})

\* C7 (steady state issues no mutation): a cycle whose Observe finds the
\* object up to date, with no deletion marker, calls no Create, Update, Delete
\* or logo upload; and the cycle that follows a successful Create with the same
\* Spec goes on to no Update.
C7_SteadyStateNoMutation ==
    [][\A r \in Resources :
          /\ SteadyCycle(cyc'[r])
          /\ (/\ ObserveStepOf(r)
              /\ cyc[r].mut = "Create" /\ cyc[r].err = ""
              /\ cyc[r].spec = cr[r].spec)
                => cyc'[r].pending # "Update"]_vars

\* Cycle 2 of the group, with the Spec it was created from: Observe found g1 up
\* to date and the cycle made the list call only.
C7_Witness ==
    /\ cyc["G"].outcome = "Current"
    /\ cyc["G"].calls = {Call("ListGroups", "", StatusOK)}
    /\ cr["G"].at.ID = NewID("g", 1) /\ nextId = 1
    /\ env.edits = 0 /\ env.external = 0

\* C8 (drift repair converges): after an Update that succeeded, with Spec
\* unchanged, no deletion marker and the remote left alone, the next Observe
\* that is answered finds the object up to date and the cycle ends
\* Present-Current, with no further Create or Update.
C8_DriftRepairConverges ==
    [][\A r \in Named :
          (/\ ObserveStepOf(r)
           /\ cyc[r].mut = "Update" /\ cyc[r].err = ""
           /\ cyc[r].spec = cr[r].spec /\ ~cr[r].deleted
           /\ env.external = 0
           /\ AllOK(cyc'[r]))
             => /\ cyc'[r].exists /\ cyc'[r].upToDate
                /\ cyc'[r].pending = "None" /\ cyc'[r].outcome = "Current"]_vars

\* The decision of the cycle record c of a resource.
CycleDecision(c) ==
    /\ c.mut \in {"None", "Create", "Update", "Delete"}
    /\ c.pending \in {"None", "Create", "Update", "Delete"}
    /\ (c.pending # "None") => (c.mut = "None" /\ OpsOf(c) \cap MutationOps = {})
    /\ (OpsOf(c) \cap CreateOps # {}) => c.mut = "Create"
    /\ (OpsOf(c) \cap UpdateOps # {}) => c.mut = "Update"
    /\ (OpsOf(c) \cap DeleteOps # {}) => c.mut = "Delete"
    /\ (OpsOf(c) \cap UploadOps # {}) => c.mut \in {"Create", "Update"}
    /\ ("Create" \in {c.pending, c.mut}) => (~c.exists /\ ~c.found /\ ~c.deleted)
    /\ ("Delete" \in {c.pending, c.mut}) => (c.exists /\ c.found /\ c.deleted)
    /\ ("Update" \in {c.pending, c.mut})
          => (c.exists /\ c.found /\ ~c.upToDate /\ ~c.deleted)
    /\ (c.outcome = "Deleted")
          => /\ ~c.exists /\ ~c.found /\ c.deleted
             /\ c.phase = "done" /\ c.mut = "None"
             /\ OpsOf(c) \cap MutationOps = {}

\* C9 (per-cycle decision): a cycle performs Observe and then at most one of
\* Create, Update, Delete: Create only for an object observed (and actually)
\* absent without deletion marker, Delete only for one observed present with
\* the marker, Update only for one observed present, drifted and without the
\* marker; absent with the marker, the cycle ends Deleted with no Delete call.
C9_PerCycleDecision == \A r \in Resources : CycleDecision(cyc[r])

\* The group, marked for deletion, was observed absent: the cycle ended
\* Deleted having made the list call only, and the resource is gone.
C9_Witness ==
    /\ cyc["G"].outcome = "Deleted" /\ cyc["G"].deleted
    /\ cyc["G"].calls = {Call("ListGroups", "", StatusOK)}
    /\ ~cr["G"].exists

\* C10 (deletion completes), for a binding: under fair polling and a remote
\* that answers every call, a binding marked for deletion eventually ends a
\* cycle as Deleted and is removed, its association absent.
C10_BindingDeletionCompletes ==
    (cr["B"].exists /\ cr["B"].deleted)
        ~> (cyc["B"].outcome = "Deleted" /\ ~cr["B"].exists)

\* The binding refers to the declared client and group by pointer only.
PointerBinding ==
    /\ cr["B"].spec.ClientID = "" /\ cr["B"].spec.ClientIDRef = "C"
    /\ cr["B"].spec.GroupID = "" /\ cr["B"].spec.GroupIDRef = "G"

\* The binding, its group and its client are declared and left alone: none is
\* marked for deletion and no remote object was removed out of band.
Undisturbed ==
    /\ \A r \in {"G", "C", "B"} : cr[r].exists /\ ~cr[r].deleted
    /\ env.external = 0

\* The association of the declared client and group exists remotely and the
\* binding is Available.
Converged ==
    /\ cr["C"].at.ID # "" /\ cr["G"].at.ID # ""
    /\ <<cr["C"].at.ID, cr["G"].at.ID>> \in member
    /\ cr["B"].cond = Available

\* C11 as stated (cross-resource convergence), its first half: the first cycle
\* of a pointer binding declared together with its group and client ends
\* Unresolved.
C11_FirstReportedUnresolved ==
    [][(/\ PointerBinding /\ Undisturbed
        /\ cyc["B"].outcome = "None" /\ cyc'["B"] # cyc["B"])
          => cyc'["B"].outcome = "Unresolved"]_vars

\* C11 (amended): a pointer binding declared together with its group and
\* client, all left alone, eventually has its association remotely and is
\* Available, whatever the order of the three resources' cycles; until both
\* referenced identities are recorded each of its cycles ends Unresolved.
C11_CrossResourceConvergence ==
    /\ [](PointerBinding => <>(Converged \/ ~Undisturbed))
    /\ [][(/\ PointerBinding /\ cyc'["B"] # cyc["B"]
           /\ \E r \in {"G", "C"} : cr[r].exists /\ cr[r].at.ID = "")
             => cyc'["B"].outcome = "Unresolved"]_vars

\* The three resources were declared together and left alone; the binding's
\* earlier cycle could not happen before both identities were recorded, and
\* now the association exists and the binding is Available.
C11_Witness ==
    /\ PointerBinding /\ Undisturbed /\ Converged
    /\ cyc["B"].outcome = "Current"
    /\ cr["G"].at.ID = NewID("g", 1) \/ cr["G"].at.ID = NewID("g", 2)


\* The step is an Observe of r that was answered and found the remote object.
ObserveFound(r) ==
    /\ ObserveStepOf(r)
    /\ cyc'[r].err = "" /\ cyc'[r].exists /\ cyc'[r].found

\* The step is a Create of r that succeeded.
CreateSucceeded(r) ==
    /\ cyc[r].phase = "observed" /\ cyc[r].pending = "Create"
    /\ cyc'[r].mut = "Create" /\ cyc'[r].err = ""

\* C12 (identity recorded only after the remote object exists): the identity
\* in Status is empty before the first cycle; it becomes non-empty only in a
\* step where a Create succeeded or an Observe found a matching remote object,
\* and then it is that object's identifier; a cycle step that fails or finds
\* nothing leaves an empty identity empty.
C12_IdentityOnlyAfterRemoteExists ==
    /\ [](\A r \in Named : cyc[r] = CycleZero => cr[r].at.ID = "")
    /\ [][\A r \in Named :
            (cr[r].at.ID = "" /\ cr'[r].at.ID # "")
              => /\ ObserveFound(r) \/ CreateSucceeded(r)
                 /\ cr'[r].at.ID \in RemoteNamed(r, cyc'[r].key, groups', clients', users')]_vars
    /\ [][\A r \in Named :
            (/\ cr[r].at.ID = "" /\ cyc'[r] # cyc[r]
             /\ cyc'[r].err # "" \/ ~cyc'[r].exists \/ ~cyc'[r].found)
              => cr'[r].at.ID = ""]_vars

\* A resource whose first cycle found nothing and left the identity empty, and
\* whose identity was recorded by the Observe that followed its Create.
C12_Witness ==
    \E r \in Named :
        /\ cr[r].at.ID # "" /\ cyc[r].found /\ cyc[r].exists
        /\ nextId > 0
        /\ cr[r].at.ID \in {NewID("g", 1), NewID("c", 1), NewID("u", 1)}


\* The Status snapshot `at` of r holds the fields of a remote object of r's
\* kind that carries the name `key`.
SnapshotOfRemote(r, at, key) ==
    CASE KindOf(r) = "group" ->
           \E g \in groups :
               /\ g.GroupName = key
               /\ at.ID = g.ID /\ at.Name = g.GroupName
               /\ at.FriendlyName = g.FriendlyName /\ at.CustomClaims = g.CustomClaims
      [] KindOf(r) = "client" ->
           \E c \in clients :
               /\ c.ClientName = key
               /\ at.ID = c.ID /\ at.Name = c.ClientName
               /\ at.CallbackURLs = c.RedirectURIs
               /\ at.LogoutCallbackURLs = c.PostLogoutURIs
               /\ at.LaunchURL = c.LaunchURL /\ at.IsPublic = c.IsPublic
               /\ at.PkceEnabled = c.RequirePKCE /\ at.HasLogo = c.HasLogo
      [] KindOf(r) = "admin" ->
           \E u \in users :
               /\ u.Username = key
               /\ at.ID = u.ID /\ at.Username = u.Username /\ at.Email = u.Email
               /\ at.FirstName = u.FirstName /\ at.LastName = u.LastName
               /\ at.Locale = u.Locale /\ at.Disabled = u.Disabled
               /\ at.IsAdmin = u.IsAdmin /\ at.CustomClaims = u.CustomClaims
      [] OTHER -> FALSE

\* C13 (Observe refreshes the Status snapshot): every Observe that is answered
\* and finds the remote object leaves Status holding that object's fields,
\* identity included, and the resource marked Available, whether the object
\* has drifted from Spec or not.
C13_ObserveRefreshesStatus ==
    [][\A r \in Named :
         ObserveFound(r)
           => /\ SnapshotOfRemote(r, cr'[r].at, cyc'[r].key)
              /\ cr'[r].cond = Available]_vars

\* An Observe found the remote object drifted from Spec: the cycle goes on to
\* Update, and Status already holds the drifted object's fields.
C13_Witness ==
    \E r \in Named :
        /\ cyc[r].phase = "observed" /\ cyc[r].pending = "Update"
        /\ cyc[r].found /\ cyc[r].exists /\ ~cyc[r].upToDate
        /\ cr[r].at.ID # "" /\ cr[r].cond = Available
        /\ SnapshotOfRemote(r, cr[r].at, cyc[r].key)


\* The lists a and b hold the same items the same number of times.
SameMultiset(a, b) ==
    \A x \in Range(a) \cup Range(b) : Count(a, x) = Count(b, x)

\* C14 (order-insensitive list comparison): on every Observe that finds the
\* OIDC client, the drift detector answers up to date exactly when name,
\* launch URL, public flag and PKCE flag are equal and the redirect-URI lists
\* are equal as multisets, and likewise the logout-URI lists; and the list
\* comparison gives the same answer with its arguments swapped.
C14_OrderInsensitiveListComparison ==
    /\ [][ObserveFound("C")
            => \E client \in clients :
                 /\ client.ClientName = cyc'["C"].key
                 /\ cyc'["C"].upToDate
                      = (/\ cr["C"].spec.Name = client.ClientName
                         /\ cr["C"].spec.LaunchURL = client.LaunchURL
                         /\ cr["C"].spec.IsPublic = client.IsPublic
                         /\ cr["C"].spec.PkceEnabled = client.RequirePKCE
                         /\ SameMultiset(cr["C"].spec.CallbackURLs, client.RedirectURIs)
                         /\ SameMultiset(cr["C"].spec.LogoutCallbackURLs,
                                         client.PostLogoutURIs))]_vars
    /\ [](\A client \in clients :
            equalStringSlices(cr["C"].spec.CallbackURLs, client.RedirectURIs)
              = equalStringSlices(client.RedirectURIs, cr["C"].spec.CallbackURLs))

\* An Observe judged a client up to date whose three redirect URIs are those
\* of Spec in another order.
C14_Witness ==
    /\ cyc["C"].exists /\ cyc["C"].found /\ cyc["C"].upToDate /\ cyc["C"].err = ""
    /\ \E client \in clients :
         /\ client.ClientName = cyc["C"].key
         /\ Len(client.RedirectURIs) = MaxLen
         /\ client.RedirectURIs # cr["C"].spec.CallbackURLs


\* The maps a and b have the same keys and the same value under each key.
SameMap(a, b) ==
    /\ DOMAIN a = DOMAIN b
    /\ \A k \in DOMAIN a : a[k] = b[k]

\* C15 (map comparison by key and value): on every Observe that finds the
\* group, the drift detector answers up to date exactly when name and
\* friendly name are equal and the custom-claims maps have the same key set
\* and the same value under every key, maps with empty-string values included.
C15_MapComparisonByKeyAndValue ==
    [][ObserveFound("G")
         => \E group \in groups :
              /\ group.GroupName = cyc'["G"].key
              /\ cyc'["G"].upToDate
                   = (/\ cr["G"].spec.Name = group.GroupName
                      /\ cr["G"].spec.FriendlyName = group.FriendlyName
                      /\ SameMap(cr["G"].spec.CustomClaims, group.CustomClaims))]_vars


\* C16 (admin-user drift detector): on every Observe that finds the admin
\* user, the drift detector answers up to date exactly when username, email,
\* first name, last name, locale and disabled flag are equal and the
\* custom-claims maps have the same key set and the same value under every
\* key; a nil map is the empty map.
C16_AdminUserDriftDetector ==
    [][ObserveFound("A")
         => \E user \in users :
              /\ user.Username = cyc'["A"].key
              /\ cyc'["A"].upToDate
                   = (/\ cr["A"].spec.Username = user.Username
                      /\ cr["A"].spec.Email = user.Email
                      /\ cr["A"].spec.FirstName = user.FirstName
                      /\ cr["A"].spec.LastName = user.LastName
                      /\ cr["A"].spec.Locale = user.Locale
                      /\ cr["A"].spec.Disabled = user.Disabled
                      /\ SameMap(cr["A"].spec.CustomClaims, user.CustomClaims))]_vars

\* An Observe judged an admin user drifted whose scalar fields equal Spec and
\* whose one claim has another key than the declared claim, both carrying the
\* empty string.
C16_Witness ==
    /\ cyc["A"].exists /\ cyc["A"].found /\ ~cyc["A"].upToDate /\ cyc["A"].err = ""
    /\ cyc["A"].phase = "observed"
    /\ \E user \in users :
         /\ user.Username = cr["A"].spec.Username /\ user.Email = cr["A"].spec.Email
         /\ user.FirstName = cr["A"].spec.FirstName /\ user.LastName = cr["A"].spec.LastName
         /\ user.Locale = cr["A"].spec.Locale /\ user.Disabled = cr["A"].spec.Disabled
         /\ DOMAIN user.CustomClaims = {"j"} /\ user.CustomClaims["j"] = ""
         /\ DOMAIN cr["A"].spec.CustomClaims = {"k"} /\ cr["A"].spec.CustomClaims["k"] = ""


\* The errors with which a cycle reports that a reference did not resolve.
ResolveErrors == {errResolveClientID, errResolveGroupID}

\* C17 (literal reference): a reference field that carries a non-empty
\* literal resolves to exactly that identifier, whatever the declared
\* resources are and also when a pointer is set on the same field; the cycle
\* never fails on that reference, and its remote calls are the membership
\* calls on the literal.
C17_LiteralReference ==
    /\ [](cr["B"].spec.ClientID # ""
            => resolveClientID(cr["B"], cr) = [id |-> cr["B"].spec.ClientID, err |-> ""])
    /\ [](cr["B"].spec.GroupID # ""
            => resolveGroupID(cr["B"], cr) = [id |-> cr["B"].spec.GroupID, err |-> ""])
    /\ [][ObserveStepOf("B")
            => /\ cr["B"].spec.ClientID # ""
                    => /\ cyc'["B"].err # errResolveClientID
                       /\ cyc'["B"].err # errResolveGroupID
                            => cyc'["B"].ids[1] = cr["B"].spec.ClientID
                       /\ \A call \in cyc'["B"].calls :
                            call.op = "GetOIDCClient" => call.target = cr["B"].spec.ClientID
               /\ cr["B"].spec.GroupID # ""
                    => /\ cyc'["B"].err # errResolveGroupID
                       /\ cyc'["B"].err # errResolveClientID
                            => cyc'["B"].ids[2] = cr["B"].spec.GroupID
                       /\ \A call \in cyc'["B"].calls :
                            call.op = "GetGroup" => call.target = cr["B"].spec.GroupID
               /\ OpsOf(cyc'["B"]) \subseteq MembershipOps]_vars

\* A binding whose client reference carries the literal c0 and a pointer to
\* the declared client, which has no recorded identity: its cycle resolved
\* the client to c0 and queried the remote about c0.
C17_Witness ==
    /\ cr["B"].spec.ClientID = "c0" /\ cr["B"].spec.ClientIDRef = "C"
    /\ cr["C"].exists /\ cr["C"].at.ID = ""
    /\ cyc["B"].err = "" /\ cyc["B"].ids[1] = "c0"
    /\ \E call \in cyc["B"].calls : call.op = "GetOIDCClient" /\ call.target = "c0"

\* The client reference of the binding is a pointer only.
ClientByPointer == cr["B"].spec.ClientID = "" /\ cr["B"].spec.ClientIDRef # ""

\* The group reference of the binding is a pointer only.
GroupByPointer == cr["B"].spec.GroupID = "" /\ cr["B"].spec.GroupIDRef # ""

\* The declared resource the pointer names can be fetched and has recorded
\* its identity.
Recorded(name, kind) == KubeGet(cr, name, kind) /\ cr[name].at.ID # ""

\* C18 (pointer reference): a reference that is a pointer resolves to the
\* identity the referenced resource has recorded at that moment; when that
\* resource cannot be fetched or has recorded none, the cycle ends Unresolved
\* without any remote call; a cycle that starts once the identity is recorded
\* does not fail on that reference.
C18_PointerReference ==
    [][ObserveStepOf("B")
         => /\ (ClientByPointer /\ Recorded(cr["B"].spec.ClientIDRef, "client"))
                 => /\ cyc'["B"].err # errResolveClientID
                    /\ cyc'["B"].err # errResolveGroupID
                         => cyc'["B"].ids[1] = cr[cr["B"].spec.ClientIDRef].at.ID
            /\ (ClientByPointer /\ ~Recorded(cr["B"].spec.ClientIDRef, "client"))
                 => /\ cyc'["B"].err = errResolveClientID
                    /\ cyc'["B"].outcome = "Unresolved"
                    /\ cyc'["B"].calls = {}
            /\ (GroupByPointer /\ Recorded(cr["B"].spec.GroupIDRef, "group"))
                 => /\ cyc'["B"].err # errResolveGroupID
                    /\ cyc'["B"].err # errResolveClientID
                         => cyc'["B"].ids[2] = cr[cr["B"].spec.GroupIDRef].at.ID
            /\ (GroupByPointer /\ ~Recorded(cr["B"].spec.GroupIDRef, "group"))
                 => /\ cyc'["B"].err \in ResolveErrors
                    /\ cyc'["B"].outcome = "Unresolved"
                    /\ cyc'["B"].calls = {}]_vars

\* A binding by pointers whose cycle resolved both references to the
\* identities its group and client recorded after they were created, and
\* called the remote with them.
C18_Witness ==
    /\ ClientByPointer /\ GroupByPointer
    /\ Recorded("C", "client") /\ Recorded("G", "group")
    /\ cr["C"].at.ID # "c0" /\ cr["G"].at.ID # "g0"
    /\ cyc["B"].err = ""
    /\ cyc["B"].ids = <<cr["C"].at.ID, cr["G"].at.ID>>
    /\ \E call \in cyc["B"].calls : call.op = "GetGroup" /\ call.target = cr["G"].at.ID

\* Only a selector is set on the client reference of the binding.
ClientBySelectorOnly ==
    /\ cr["B"].spec.ClientID = "" /\ cr["B"].spec.ClientIDRef = ""
    /\ cr["B"].spec.ClientIDSelector

\* Only a selector is set on the group reference of the binding.
GroupBySelectorOnly ==
    /\ cr["B"].spec.GroupID = "" /\ cr["B"].spec.GroupIDRef = ""
    /\ cr["B"].spec.GroupIDSelector

\* C19 (selector reference): a reference on which only a selector is set
\* does not resolve: resolution returns an error and no identifier, and the
\* cycle fails on resolution without the membership query or any other
\* remote call.
C19_SelectorReference ==
    /\ [](ClientBySelectorOnly
            => LET got == resolveClientID(cr["B"], cr) IN got.err # "" /\ got.id = "")
    /\ [](GroupBySelectorOnly
            => LET got == resolveGroupID(cr["B"], cr) IN got.err # "" /\ got.id = "")
    /\ [][(ObserveStepOf("B") /\ (ClientBySelectorOnly \/ GroupBySelectorOnly))
            => /\ cyc'["B"].err \in ResolveErrors
               /\ ClientBySelectorOnly => cyc'["B"].err = errResolveClientID
               /\ cyc'["B"].ids = <<"", "">>
               /\ cyc'["B"].calls = {}
               /\ member' = member]_vars

\* A binding whose group reference is a selector only, next to a client that
\* has recorded its identity: its cycle failed on the group reference and
\* called nothing.
C19_Witness ==
    /\ GroupBySelectorOnly
    /\ ClientByPointer /\ Recorded("C", "client")
    /\ cyc["B"].err = errResolveGroupID
    /\ cyc["B"].calls = {} /\ cyc["B"].ids = <<"", "">>
    /\ member = {}

\* The number of forms set on a reference field: literal, pointer, selector.
FormsSet(literal, pointer, selector) ==
    (IF literal # "" THEN 1 ELSE 0) + (IF pointer # "" THEN 1 ELSE 0)
      + (IF selector THEN 1 ELSE 0)

\* C20 (exactly-one reference form): whenever a cycle of the binding gets
\* past reference resolution, exactly one of literal, pointer and selector is
\* set on its client reference and exactly one on its group reference; a
\* binding with none or several forms on a field is not resolved.
C20_ExactlyOneReferenceForm ==
    [][(ObserveStepOf("B") /\ cyc'["B"].err \notin ResolveErrors)
         => /\ FormsSet(cr["B"].spec.ClientID, cr["B"].spec.ClientIDRef,
                        cr["B"].spec.ClientIDSelector) = 1
            /\ FormsSet(cr["B"].spec.GroupID, cr["B"].spec.GroupIDRef,
                        cr["B"].spec.GroupIDSelector) = 1]_vars

\* The name under which Observe looks r up: the stable name if recorded,
\* otherwise the name field of Spec.
DiscoveryKey(r) == IF cr[r].ext # "" THEN cr[r].ext ELSE SpecNameOf(r)

\* C21 (identity discovery): an answered Observe of a group, admin user or
\* OIDC client looks the object up by the recorded stable name, or by the
\* Spec's name when none is recorded; with no remote object of that name it
\* reports absence without error and leaves Status, stable name and condition
\* alone; with a match it takes that object's identity, and a stable name that
\* was empty becomes the matched name while a recorded one is kept.
C21_IdentityDiscovery ==
    [][\A r \in Named :
         (ObserveStepOf(r) /\ AllOK(cyc'[r]))
           => /\ cyc'[r].key = DiscoveryKey(r)
              /\ RemoteNamed(r, DiscoveryKey(r), groups, clients, users) = {}
                   => /\ ~cyc'[r].exists /\ cyc'[r].err = ""
                      /\ cr'[r].at = cr[r].at /\ cr'[r].ext = cr[r].ext
                      /\ cr'[r].cond = cr[r].cond
              /\ (cyc'[r].exists /\ cyc'[r].err = "")
                   => /\ cr'[r].at.ID \in RemoteNamed(r, DiscoveryKey(r), groups, clients, users)
                      /\ cr'[r].ext = DiscoveryKey(r)
              /\ (/\ RemoteNamed(r, DiscoveryKey(r), groups, clients, users) # {}
                  /\ cyc'[r].err = "")
                   => cyc'[r].exists]_vars

\* A resource without stable name whose Spec names an object that exists
\* remotely: Observe found it, took its identity and recorded its name; and
\* the stable name now differs from a Spec name edited since.
C21_Witness ==
    \E r \in Named :
        /\ cyc[r].exists /\ cyc[r].found /\ cyc[r].err = ""
        /\ cr[r].ext = cyc[r].key /\ cr[r].ext # SpecNameOf(r)
        /\ cr[r].at.ID \in RemoteNamed(r, cr[r].ext, groups, clients, users)

\* The step is the Update of the OIDC client r.
OIDCClientUpdateOf(r) ==
    /\ KindOf(r) = "client"
    /\ cyc[r].phase = "observed" /\ cyc[r].pending = "Update"
    /\ cyc'[r].mut = "Update"

\* The field update of the cycle record c was answered OK.
FieldUpdateOK(c) ==
    \E call \in c.calls : call.op = "UpdateOIDCClient" /\ call.status = StatusOK

\* C22 (out-of-band logo field): the OIDC-client drift detector answers from
\* name, launch URL, flags and the two URI lists alone, whatever the declared
\* logo URL and the observed has-logo flag are; and an Update uploads the logo
\* exactly when the field update succeeded and Spec declares a logo URL,
\* whichever fields had drifted.
C22_OutOfBandLogo ==
    /\ [][ObserveFound("C")
            => \E client \in clients :
                 /\ client.ClientName = cyc'["C"].key
                 /\ cyc'["C"].upToDate
                      = (/\ cr["C"].spec.Name = client.ClientName
                         /\ cr["C"].spec.LaunchURL = client.LaunchURL
                         /\ cr["C"].spec.IsPublic = client.IsPublic
                         /\ cr["C"].spec.PkceEnabled = client.RequirePKCE
                         /\ SameMultiset(cr["C"].spec.CallbackURLs, client.RedirectURIs)
                         /\ SameMultiset(cr["C"].spec.LogoutCallbackURLs,
                                         client.PostLogoutURIs))]_vars
    /\ [][OIDCClientUpdateOf("C")
            => ("UploadOIDCClientLogo" \in OpsOf(cyc'["C"]))
                 = (FieldUpdateOK(cyc'["C"]) /\ cr["C"].spec.LogoURL # "")]_vars

\* An Update run because the redirect URIs had drifted, on a client whose
\* Spec declares a logo: the field update succeeded and the logo was uploaded.
C22_Witness ==
    /\ cyc["C"].mut = "Update" /\ cyc["C"].err = ""
    /\ cr["C"].spec.LogoURL # ""
    /\ cr["C"].spec.Name = cr["C"].at.Name
    /\ ~SameMultiset(cr["C"].spec.CallbackURLs, cr["C"].at.CallbackURLs)
    /\ FieldUpdateOK(cyc["C"])
    /\ "UploadOIDCClientLogo" \in OpsOf(cyc["C"])

\* The call `op` of the cycle record c was answered with `status`.
Answered(c, op, ok) ==
    \E call \in c.calls : call.op = op /\ (call.status = StatusOK) = ok

\* C23 (logo upload failures never block): an OIDC-client Create whose
\* creation call succeeded and whose logo upload failed still succeeds,
\* records the created client's name as stable name and returns the client
\* secret; an Update whose field update succeeded and whose logo upload
\* failed still succeeds.
C23_LogoFailureNeverBlocks ==
    /\ [][(/\ cyc["C"].phase = "observed" /\ cyc["C"].pending = "Create"
           /\ cyc'["C"].mut = "Create"
           /\ Answered(cyc'["C"], "CreateOIDCClient", TRUE)
           /\ Answered(cyc'["C"], "UploadOIDCClientLogo", FALSE))
            => /\ cyc'["C"].err = "" /\ cyc'["C"].outcome = "Created"
               /\ cr'["C"].ext = cr["C"].spec.Name
               /\ cr'["C"].ext \in {c.ClientName : c \in clients'}
               /\ ~cr["C"].spec.IsPublic => cyc'["C"].secret # ""]_vars
    /\ [][(/\ OIDCClientUpdateOf("C")
           /\ Answered(cyc'["C"], "UpdateOIDCClient", TRUE)
           /\ Answered(cyc'["C"], "UploadOIDCClientLogo", FALSE))
            => cyc'["C"].err = "" /\ cyc'["C"].outcome = "Updated"]_vars

\* A Create of a client with a declared logo: the client was created, the
\* upload failed, and the cycle ended Created with the stable name recorded
\* and the secret returned.
C23_Witness ==
    /\ cyc["C"].mut = "Create" /\ cyc["C"].err = ""
    /\ Answered(cyc["C"], "CreateOIDCClient", TRUE)
    /\ Answered(cyc["C"], "UploadOIDCClientLogo", FALSE)
    /\ cr["C"].ext = cr["C"].spec.Name
    /\ cyc["C"].secret # ""

\* The step is a step of the binding's cycle or an Update of the binding.
BindingStep == cyc'["B"] # cyc["B"]

\* C24 (bindings have no drift): an Observe of the binding that confirms the
\* association reports it up to date, so no cycle goes on to Update; Update,
\* whenever it is called, issues no remote call and leaves the binding and
\* the remote system as they were; and a step of the binding changes the
\* remote system at most by creating or removing its own association.
C24_BindingsHaveNoDrift ==
    /\ [](cyc["B"].exists => cyc["B"].upToDate)
    /\ [](cyc["B"].pending # "Update")
    /\ [][(BindingStep /\ cyc'["B"].mut = "Update")
            => /\ cyc'["B"].calls = {} /\ cyc'["B"].err = ""
               /\ cr' = cr
               /\ groups' = groups /\ clients' = clients /\ users' = users
               /\ member' = member]_vars
    /\ [][BindingStep
            => /\ groups' = groups /\ clients' = clients /\ users' = users
               /\ member' # member
                    => \/ /\ cyc'["B"].mut = "Create"
                          /\ \E pair \in member' : member' = member \cup {pair}
                       \/ /\ cyc'["B"].mut = "Delete"
                          /\ \E pair \in member : member' = member \ {pair}]_vars

\* Update was called on a binding whose association exists and whose Status
\* holds the observed client and group: the binding and the association are
\* as before.
C24_Witness ==
    /\ cyc["B"].mut = "Update" /\ cyc["B"].outcome = "Updated" /\ cyc["B"].calls = {}
    /\ cr["B"].cond = Available /\ cr["B"].at.Client.ID # ""
    /\ <<cr["B"].at.Client.ID, cr["B"].at.Group.ID>> \in member

\* C25 (admin users are privileged in Status): whenever the Status snapshot
\* of an admin-user resource has been written, its IsAdmin field is true.
C25_AdminStatusIsPrivileged ==
    \A r \in Resources :
        (KindOf(r) = "admin" /\ cr[r].at # AdminUserObservationZero) => cr[r].at.IsAdmin

\* An admin-user resource whose Status was written by an Observe that found
\* its user.
C25_Witness ==
    /\ cr["A"].at.ID # "" /\ cr["A"].at.IsAdmin
    /\ cyc["A"].found /\ cyc["A"].exists
    /\ \E u \in users : u.ID = cr["A"].at.ID /\ u.IsAdmin

\* The step is the mutation `op` of the cycle of r.
MutationOf(r, op) ==
    /\ cyc[r].phase = "observed" /\ cyc[r].pending = op
    /\ cyc'[r].mut = op

\* C26 (admin flag on Create only): the request of every admin-user Create
\* carries the admin flag set, whatever Spec holds, and the user a successful
\* Create makes is an admin; the request of an Update carries no admin flag,
\* and an Update leaves the admin flag of every remote user as it was.
C26_AdminFlagOnCreateOnly ==
    /\ [](AdminUserCreateRequest(cr["A"]).IsAdmin)
    /\ []("IsAdmin" \notin DOMAIN AdminUserUpdateRequest(cr["A"]))
    /\ [][(MutationOf("A", "Create") /\ cyc'["A"].err = "")
            => \E u \in users' \ users :
                 u.IsAdmin /\ u.Username = cr["A"].spec.Username]_vars
    /\ [][MutationOf("A", "Update")
            => \A u \in users' : \E old \in users :
                 old.ID = u.ID /\ old.IsAdmin = u.IsAdmin]_vars

\* An admin user made by Create and later changed by an Update: it is an
\* admin still.
C26_Witness ==
    /\ cyc["A"].mut = "Update" /\ cyc["A"].err = ""
    /\ \E u \in users :
         /\ u.ID = NewID("u", 1) /\ u.ID = cr["A"].at.ID
         /\ u.IsAdmin /\ u.Email = cr["A"].spec.Email /\ u.Email # cr["A"].at.Email

\* The client clientID and the group groupID exist remotely and the group's
\* name is among the client's group names.
RemotelyInGroup(clientID, groupID) ==
    \E c \in clients, g \in groups :
        /\ c.ID = clientID /\ g.ID = groupID
        /\ g.GroupName \in ClientView(c).GroupNames

\* C27 (membership query): an answered membership check of the binding's
\* Observe says "member" exactly when client and group both exist remotely
\* and the group's name is in the client's list of group names; when either
\* is absent it says "not a member" without error, so the binding is
\* observed absent, which completes a pending deletion.
C27_MembershipQuery ==
    /\ [][(ObserveStepOf("B") /\ cyc'["B"].err \notin ResolveErrors /\ AllOK(cyc'["B"])
          /\ cyc'["B"].calls # {})
         => LET present == RemotelyInGroup(cyc'["B"].ids[1], cyc'["B"].ids[2])
            IN  /\ (cyc'["B"].phase = "fetching") = present
                /\ ~present
                     => /\ cyc'["B"].err = "" /\ ~cyc'["B"].exists
                        /\ cr["B"].deleted
                             => cyc'["B"].outcome = "Deleted" /\ ~cr'["B"].exists]_vars
    /\ [][(ObserveStepOf("B") /\ cyc'["B"].err \notin ResolveErrors
            /\ \/ ~\E c \in clients : c.ID = cyc'["B"].ids[1]
               \/ ~\E g \in groups : g.ID = cyc'["B"].ids[2])
           => /\ cyc'["B"].err = "" /\ ~cyc'["B"].exists
              /\ cr["B"].deleted => cyc'["B"].outcome = "Deleted"]_vars

\* A binding marked for deletion whose client was removed remotely by
\* another actor: the membership check found no client, the binding was
\* observed absent and its deletion completed.
C27_Witness ==
    /\ cyc["B"].outcome = "Deleted" /\ ~cr["B"].exists /\ cyc["B"].err = ""
    /\ cyc["B"].ids[1] # "" /\ cyc["B"].ids[2] # ""
    /\ ~\E c \in clients : c.ID = cyc["B"].ids[1]
    /\ \E g \in groups : g.ID = cyc["B"].ids[2]
    /\ env.external > 0

\* C28 (binding Observe tolerates concurrent remote deletion): when the
\* client or the group is removed remotely after the membership check said
\* "member" and before the fetches for Status, Observe ends with an error or
\* an observation and never reads the fields of a fetch that returned
\* absence.
C28_ObserveToleratesConcurrentDeletion ==
    \A r \in Resources :
        KindOf(r) = "binding" => cyc[r].err # "panic: nil pointer dereference"

\* The calls the step added to the cycle record of r.
StepCalls(r) == cyc'[r].calls \ cyc[r].calls

\* C29 (no mutation with an empty identity): every remote call of an Update
\* or Delete of a group, admin user or OIDC client is addressed to the
\* identity recorded in Status, which is not empty; with an empty recorded
\* identity Update returns an error and Delete returns success, and neither
\* calls the remote or changes it.
C29_NoMutationWithEmptyIdentity ==
    [][\A r \in Named :
         (MutationOf(r, "Update") \/ MutationOf(r, "Delete"))
           => /\ \A call \in StepCalls(r) :
                   call.target = cr[r].at.ID /\ call.target # ""
              /\ cr[r].at.ID = ""
                   => /\ cyc'[r].calls = cyc[r].calls
                      /\ groups' = groups /\ clients' = clients /\ users' = users
                      /\ member' = member
                      /\ MutationOf(r, "Update") => cyc'[r].err # ""
                      /\ MutationOf(r, "Delete") => cyc'[r].err = ""]_vars

\* A Delete handed a resource with an empty recorded identity returned
\* success without calling the remote, although an object of the declared
\* name exists remotely.
C29_Witness ==
    \E r \in Named :
        /\ cyc[r].mut = "Delete" /\ cyc[r].err = "" /\ cyc[r].calls = {}
        /\ cr[r].at.ID = ""
        /\ RemoteNamed(r, SpecNameOf(r), groups, clients, users) # {}

\* The step ends an Observe of r: the cycle record of r changes and no
\* mutation has run in it.
ObserveEnds(r) ==
    /\ cyc[r].phase \in {"done", "fetching"}
    /\ cyc'[r] # cyc[r]
    /\ cyc'[r].mut = "None"

\* C30 (failed or empty Observe changes nothing): an Observe that returns an
\* error or finds no remote object leaves the Status snapshot, the recorded
\* stable name and the health condition of the resource as they were.
C30_FailedObserveChangesNothing ==
    [][\A r \in Resources :
         (ObserveEnds(r) /\ (cyc'[r].err # "" \/ ~cyc'[r].exists))
           => /\ cr'[r].at = cr[r].at
              /\ cr'[r].ext = cr[r].ext
              /\ cr'[r].cond = cr[r].cond]_vars

\* An Observe of a resource that an earlier Observe had recorded and marked
\* Available returned an error.
C30_Witness ==
    \E r \in Resources :
        /\ cyc[r].mut = "None" /\ cyc[r].err # ""
        /\ cr[r].ext # "" /\ cr[r].cond = Available


\* What Observe of r would report in the state the step leads to, the list
\* call answered with the remote objects of that state.
ObserveNext(r) ==
    CASE KindOf(r) = "group" -> GroupObserve(cr'[r], Resp(StatusOK, groups'))
      [] KindOf(r) = "client" ->
           OIDCClientObserve(cr'[r], Resp(StatusOK, {ClientView(c) : c \in clients'}))
      [] KindOf(r) = "admin" -> AdminUserObserve(cr'[r], Resp(StatusOK, users'))

\* The step is a Create or Update of r that returned no error.
FieldsWritten(r) ==
    /\ MutationOf(r, "Create") \/ MutationOf(r, "Update")
    /\ cyc'[r].err = ""

\* C31 (Create/Observe round trip): after a Create or Update of a group,
\* admin user or OIDC client that the remote stored, an Observe with the same
\* Spec and with the stable name equal to the declared name reports the
\* object present and up to date.
C31_CreateObserveRoundTrip ==
    [][\A r \in Named :
         (FieldsWritten(r) /\ cr'[r].ext = SpecNameOf(r))
           => /\ ObserveNext(r).err = ""
              /\ ObserveNext(r).exists
              /\ ObserveNext(r).upToDate]_vars

\* An OIDC client whose Update has replaced drifted callback lists and whose
\* remote object the drift detector now accepts.
C31_Witness ==
    /\ cyc["C"].mut = "Update" /\ cyc["C"].err = ""
    /\ cr["C"].ext = cr["C"].spec.Name
    /\ Len(cr["C"].spec.CallbackURLs) >= 2
    /\ cr["C"].at.CallbackURLs # cr["C"].spec.CallbackURLs
    /\ \E c \in clients : c.ClientName = cr["C"].spec.Name
                          /\ isOIDCClientUpToDate(cr["C"].spec, c)


\* The previous cycle of r was cut off after a Create the remote accepted,
\* Spec has not changed since, and the created object is still there.
AfterInterruptedCreate(r) ==
    /\ cyc[r].outcome = "Interrupted"
    /\ cyc[r].spec = cr[r].spec
    /\ RemoteNamed(r, SpecNameOf(r), groups, clients, users) # {}

\* C32 (interrupted Create is adopted, not duplicated): the cycle after one
\* that was cut off after a successful Create finds the created object by
\* the declared name, records its identity and does not go on to Create.
C32_InterruptedCreateAdopted ==
    [][\A r \in Named :
         (ObserveStepOf(r) /\ AfterInterruptedCreate(r))
           => /\ cyc'[r].pending # "Create"
              /\ cyc'[r].exists
              /\ cr'[r].at.ID \in RemoteNamed(r, SpecNameOf(r), groups, clients, users)]_vars


\* Status snapshots a cycle of r may find left over: none, and that of an
\* object that is not the one the remote holds.
LeftoverStatus(r) ==
    CASE KindOf(r) = "group" ->
           {GroupObservationZero,
            [GroupObservationZero EXCEPT !.ID = "g9", !.Name = "old", !.FriendlyName = "Old"]}
      [] KindOf(r) = "client" ->
           {OIDCClientObservationZero,
            [OIDCClientObservationZero EXCEPT !.ID = "c9", !.Name = "old",
                                              !.CallbackURLs = <<"z">>, !.HasLogo = TRUE]}
      [] KindOf(r) = "admin" ->
           {AdminUserObservationZero,
            [AdminUserObservationZero EXCEPT !.ID = "u9", !.Username = "old", !.IsAdmin = TRUE]}

\* The answers the list call of r's Observe can get in this state.
ListAnswers(r) ==
    CASE KindOf(r) = "group" -> HttpListGroups
      [] KindOf(r) = "client" -> HttpListOIDCClients
      [] KindOf(r) = "admin" -> HttpListUsers

\* Observe of r applied to the resource c when the list call is answered resp.
ObserveOf(r, c, resp) ==
    CASE KindOf(r) = "group" -> GroupObserve(c, resp)
      [] KindOf(r) = "client" -> OIDCClientObserve(c, resp)
      [] KindOf(r) = "admin" -> AdminUserObserve(c, resp)

\* The key of Observe's lookup and the request of Create, for the resource c.
LookupKeyOf(r, c) ==
    CASE KindOf(r) = "group" -> GroupLookupKey(c)
      [] KindOf(r) = "client" -> OIDCClientLookupKey(c)
      [] KindOf(r) = "admin" -> AdminUserLookupKey(c)

CreateRequestOf(r, c) ==
    CASE KindOf(r) = "group" -> GroupRequest(c)
      [] KindOf(r) = "client" -> OIDCClientRequest(c)
      [] KindOf(r) = "admin" -> AdminUserCreateRequest(c)

\* Observe of r, started with the leftover Status alt instead of the present
\* one and given the same answer, looks up the same key, reports the same
\* observation and error, leaves the same resource behind whenever it found
\* the object, and otherwise leaves one with the same Create request.
SameCycleWith(r, alt) ==
    LET twin == [cr[r] EXCEPT !.at = alt]
    IN  /\ LookupKeyOf(r, twin) = LookupKeyOf(r, cr[r])
        /\ \A resp \in ListAnswers(r) :
             LET a == ObserveOf(r, cr[r], resp)
                 b == ObserveOf(r, twin, resp)
             IN  /\ a.exists = b.exists /\ a.upToDate = b.upToDate /\ a.err = b.err
                 /\ a.exists => a.cr = b.cr
                 /\ CreateRequestOf(r, a.cr) = CreateRequestOf(r, b.cr)

\* C33 (cycle decisions ignore stale Status): a cycle that starts from the
\* same Spec, stable name, deletion marker and remote state but from another
\* leftover Status makes the same remote calls with the same arguments:
\* Observe decides the same, and every Update or Delete call of the cycle is
\* addressed to the identity Observe recorded in this cycle, that of the
\* object it found under its key.
C33_CycleIgnoresStaleStatus ==
    /\ [][\A r \in Named :
            ObserveStepOf(r) => \A alt \in LeftoverStatus(r) : SameCycleWith(r, alt)]_vars
    /\ [][\A r \in Named :
            (ObserveStepOf(r) /\ cyc'[r].exists)
              => cr'[r].at.ID \in RemoteNamed(r, cyc'[r].key, groups, clients, users)]_vars
    /\ [][\A r \in Named :
            (cyc[r].phase = "observed" /\ cyc'[r].phase = "observed")
              => cr'[r].at = cr[r].at]_vars
    /\ [][\A r \in Named :
            (MutationOf(r, "Update") \/ MutationOf(r, "Delete"))
              => \A call \in StepCalls(r) : call.target = cr[r].at.ID]_vars

\* A group between two cycles whose Status holds the identity of an object
\* that is gone, while the remote holds another object under its lookup key:
\* the cycle that starts here records and uses the identity of that object.
C33_Witness ==
    /\ cyc["G"].phase = "done" /\ cyc["G"].mut = "Create" /\ cyc["G"].err = ""
    /\ cr["G"].at.ID = "g0"
    /\ RemoteNamed("G", GroupLookupKey(cr["G"]), groups, clients, users) = {NewID("g", 1)}


\* Two different declared resources of one kind, both still declared.
Rivals(r1, r2) ==
    /\ r1 # r2 /\ KindOf(r1) = KindOf(r2)
    /\ cr[r1].exists /\ cr[r2].exists

\* The identifiers of the remote objects of r's kind.
RemoteIDs(r, gs, cs, us) ==
    CASE KindOf(r) = "group" -> {g.ID : g \in gs}
      [] KindOf(r) = "client" -> {c.ID : c \in cs}
      [] KindOf(r) = "admin" -> {u.ID : u \in us}
      [] OTHER -> {}

\* C34 (exclusive ownership under concurrency): no remote identity is
\* recorded in the Status of two declared resources of one kind at once, and
\* the Delete of one declared resource never removes a remote object whose
\* identity the Status of another records.
C34_ExclusiveOwnership ==
    /\ [](\A r1, r2 \in Resources :
            (Rivals(r1, r2) /\ cr[r1].at.ID # "") => cr[r1].at.ID # cr[r2].at.ID)
    /\ [][\A r1, r2 \in Resources :
            (Rivals(r1, r2) /\ MutationOf(r1, "Delete"))
              => cr[r2].at.ID \notin (RemoteIDs(r2, groups, clients, users)
                                        \ RemoteIDs(r2, groups', clients', users'))]_vars


\* The pair of identities the references of the binding r resolve to.
ResolvedPair(r) == <<resolveClientID(cr[r], cr).id, resolveGroupID(cr[r], cr).id>>

\* The associations the step adds or removes.
ChangedPairs == (member' \ member) \cup (member \ member')

\* C35 (binding cycles touch only their own pair): every call of a binding's
\* Create or Delete is an association or dissociation of the pair its
\* references resolve to in that operation; no other association changes,
\* the pair of its earlier references included, and no client or group does.
C35_BindingTouchesOnlyItsPair ==
    [][\A r \in Resources :
         (KindOf(r) = "binding" /\ (MutationOf(r, "Create") \/ MutationOf(r, "Delete")))
           => /\ \A call \in StepCalls(r) :
                   /\ call.op = IF MutationOf(r, "Create") THEN "AddClientToGroup"
                                ELSE "RemoveClientFromGroup"
                   /\ call.target = ResolvedPair(r)[1] \o ":" \o ResolvedPair(r)[2]
              /\ ChangedPairs \subseteq {ResolvedPair(r)}
              /\ groups' = groups /\ clients' = clients /\ users' = users]_vars

\* A binding that was created for the literal pair, was pointed at the
\* declared client and group and was created again: both associations exist.
C35_Witness ==
    /\ cyc["B"].mut = "Create" /\ cyc["B"].err = ""
    /\ ClientByPointer /\ GroupByPointer
    /\ cr["B"].ext = cr["C"].at.ID \o ":" \o cr["G"].at.ID
    /\ cr["B"].at.Client.ID = "c0" /\ cr["B"].at.Group.ID = "g0"
    /\ {<<"c0", "g0">>, <<cr["C"].at.ID, cr["G"].at.ID>>} \subseteq member
    /\ Cardinality(member) = 2


\* The step ends an Observe of the binding r that found the binding.
BindingObserved(r) ==
    /\ KindOf(r) = "binding"
    /\ cyc[r].phase = "fetching" /\ cyc'[r].phase # "fetching"
    /\ cyc'[r].err = "" /\ cyc'[r].exists

\* The step is a Create of the binding r that returned no error.
BindingCreated(r) ==
    /\ KindOf(r) = "binding"
    /\ MutationOf(r, "Create") /\ cyc'[r].err = ""

\* The stable name of a pair of identities.
PairName(pair) == pair[1] \o ":" \o pair[2]

\* C36 (binding stable name matches its endpoints), as claimed: after every
\* successful Observe or Create of a binding its stable name is
\* '<client identity>:<group identity>' for the identities resolved in that
\* cycle, also after its references were changed.
C36_StableNameMatchesEndpoints ==
    [][\A r \in Resources :
         /\ BindingObserved(r) => cr'[r].ext = PairName(cyc[r].ids)
         /\ BindingCreated(r) => cr'[r].ext = PairName(ResolvedPair(r))]_vars

\* C36, amended: after a successful Create the stable name is that of the
\* resolved pair; a successful Observe records the name of the resolved pair
\* only when no stable name is recorded, and otherwise leaves the recorded
\* one as it is.
C36_StableNameSetByCreateOrFirstObserve ==
    [][\A r \in Resources :
         /\ BindingObserved(r)
              => cr'[r].ext = IF cr[r].ext = "" THEN PairName(cyc[r].ids) ELSE cr[r].ext
         /\ BindingCreated(r) => cr'[r].ext = PairName(ResolvedPair(r))]_vars

\* A binding that Observe found for the literal pair while its stable name
\* still is that of the pair it was created for before its references were
\* changed.
C36_Witness ==
    /\ cyc["B"].outcome = "Current" /\ cyc["B"].err = ""
    /\ cyc["B"].ids = <<"c0", "g0">>
    /\ cr["B"].at.Client.ID = "c0" /\ cr["B"].at.Group.ID = "g0"
    /\ cr["B"].ext # "" /\ cr["B"].ext # "c0:g0"


\* The answers a Create of the OIDC client can get in this state.
CreateAnswers == {out.resp : out \in HttpCreateOIDCClient(OIDCClientRequest(cr["C"]))}

\* C37 (client secret publication): the connection details of an OIDC-client
\* Create hold the entry 'clientSecret', with the secret the remote issued,
\* exactly when the creation succeeded, the created client is not public and
\* the secret is not empty, and hold nothing else; the Create step returns
\* these details, and Observe, Update and Delete return none.
C37_ClientSecretPublication ==
    /\ [](cyc["C"].pending = "Create"
            => \A resp \in CreateAnswers :
                 LET details == OIDCClientConnectionDetails(resp)
                     issued == resp.status = StatusOK /\ ~resp.body.IsPublic
                                 /\ resp.body.ClientSecret # ""
                 IN  /\ DOMAIN details = IF issued THEN {"clientSecret"} ELSE {}
                     /\ issued => details.clientSecret = resp.body.ClientSecret)
    /\ [][MutationOf("C", "Create")
            => /\ cyc'["C"].secret \in
                    {ClientSecretOf(OIDCClientConnectionDetails(resp)) : resp \in CreateAnswers}
               /\ cyc'["C"].secret # ""
                    => \E c \in clients' \ clients : ~c.IsPublic]_vars
    /\ [][(cyc'["C"] # cyc["C"] /\ cyc'["C"].mut # "Create") => cyc'["C"].secret = ""]_vars

\* A public client was created and no secret returned although the remote
\* may have issued one.
C37_Witness ==
    /\ cyc["C"].mut = "Create" /\ cyc["C"].err = ""
    /\ env.scenario = "secrets"
    /\ cr["C"].spec.IsPublic
    /\ cyc["C"].secret = ""
    /\ \E c \in clients : c.ClientName = cr["C"].spec.Name /\ c.IsPublic


\* The extensions of the image formats, in lower case.
ImageExtensions ==
    {<<".", "p", "n", "g">>, <<".", "j", "p", "e", "g">>, <<".", "j", "p", "g">>,
     <<".", "g", "i", "f">>, <<".", "s", "v", "g">>}

\* The URL ends in one of the image extensions, whatever the case of its
\* letters.
EndsInImageExtension(url) ==
    \E ext \in ImageExtensions :
        /\ Len(url) >= Len(ext)
        /\ \A i \in 1..Len(ext) : ToLowerChar(url[Len(url) - Len(ext) + i]) = ext[i]

\* UploadOIDCClientLogo has returned.
Uploaded == env.scenario = "logo" /\ cyc["C"].mut = "Upload"

\* C38 (logo upload validation): with an empty URL UploadOIDCClientLogo
\* returns success and makes no request; when the download fails, the file is
\* larger than 2 MB or the URL does not end in an image extension, it returns
\* an error, makes no upload call, and the client has no logo.
C38_LogoUploadValidation ==
    Uploaded =>
        /\ env.url = <<>> => (cyc["C"].err = "" /\ cyc["C"].calls = {})
        /\ (env.url # <<>>
              /\ (env.answer.status # StatusOK \/ env.answer.size > 2 * 1024 * 1024
                    \/ ~EndsInImageExtension(env.url)))
             => /\ cyc["C"].err # ""
                /\ "UploadOIDCClientLogo" \notin OpsOf(cyc["C"])
                /\ \A c \in clients : ~c.HasLogo

\* A logo of one byte more than 2 MB under a URL that ends in .PNG was
\* downloaded and refused without an upload call.
C38_Witness ==
    /\ Uploaded
    /\ env.url = <<"x", ".", "P", "N", "G">>
    /\ env.answer = [status |-> StatusOK, size |-> 2 * 1024 * 1024 + 1]
    /\ cyc["C"].err = "logo file size exceeds 2MB limit"
    /\ OpsOf(cyc["C"]) = {"GET"}

============================================================================
